---- MODULE Spec2Model ----
(***************************************************************************)
(* Load-balancing strategies of the gateway (package load_balance):        *)
(* RoundRobinBalance (the variant without a mutex and the variant guarded  *)
(* by sync.RWMutex), WeightRoundRobinBalance and ConsistentHashBanlance.   *)
(*                                                                         *)
(* Spec      one strategy object driven by one caller: every operation     *)
(*           (Add, Get/Next, SetConf, Update) is one action.               *)
(* SpecConc  the same objects driven by several goroutines: every          *)
(*           operation is split at its lock operations and at its reads    *)
(*           and writes of the shared fields.                              *)
(* SpecWatch the watch loops of ZkManager (package zookeeper), which feed  *)
(*           the membership source: WatchServerListByPath / WatchPathData. *)
(* SpecSession  the registry client of ZkManager: GetConnect, Close,       *)
(*           GetPathData, SetPathData, RegistServerPath, session expiry    *)
(*           and the reconnect it schedules.                               *)
(* SpecDirector the directors of the reverse proxy, which route a request  *)
(*           to what Get() of a strategy returned.                         *)
(* SpecRing  a ConsistentHashBanlance that only grows: Add and Get.        *)
(* SpecRedundant  a strategy whose Update is called again and again with   *)
(*           the membership it already has, between the selections.        *)
(* SpecConverge  the watch loops together with the consumer of the         *)
(*           snapshot channel.                                             *)
(* SpecRegist  several clients calling RegistServerPath on one group path. *)
(* SpecPool  several ZkManagers sharing the package-level zkPool.          *)
(*                                                                         *)
(* Go slices are 0-based, TLA+ sequences 1-based: rss[i] of the source is  *)
(* rss[i + 1] here.  A nil error is the string "nil".                      *)
(***************************************************************************)
EXTENDS Integers, Sequences, FiniteSets, TLC

VARIABLES
    kind,      \* which strategy type (or which ZkManager) is under test
    zk,        \* SpecWatch: the ZkManager, its watch loop and the two channels
    sess,      \* SpecSession, SpecRegist, SpecPool: the ZkManagers, their handles and the registry
    req,       \* SpecDirector: the request a director is routing
    rr,        \* RoundRobinBalance: [curIndex, rss, conf]
    wrr,       \* WeightRoundRobinBalance: [rss (sequence of WeightNode), conf]
    ch,        \* ConsistentHashBanlance: [replicas, keys, hashMap, conf]
    hashFn,    \* the Hash function of the ConsistentHashBanlance
    confList,  \* what GetConf() of the membership source returns now
    last,      \* the last completed call and what it returned
    log,       \* the selections made since the pool last changed
    added,     \* the addresses added by Add since the pool was last emptied
    fresh,     \* no selection was made between that moment and the last change of the pool
    pc,        \* SpecConc: where each goroutine stands
    loc,       \* SpecConc: each goroutine's local variables
    mux,       \* SpecConc: the strategy's sync.RWMutex
    hist       \* SpecConc: bookkeeping of the run (never read by the code)

lbVars == <<kind, zk, sess, req, rr, wrr, ch, hashFn, confList, last, log, added, fresh>>
concVars == <<pc, loc, mux, hist>>
vars == <<lbVars, concVars>>

(***************************************************************************)
(* Bounds of the model.                                                    *)
(***************************************************************************)
MaxPool == 3        \* Add is not called on a pool that already has this many entries
MaxCalls == 20      \* number of selections made on one pool before it changes

Addrs == {"a", "b", "c"}

Kinds == {"RoundRobinNoMux", "RoundRobin", "WeightRoundRobin", "ConsistentHash"}

NoConf == "nil"
ConfTypes == {"LoadBalanceZkConf", "LoadBalanceCheckConf"}

Min(S) == CHOOSE x \in S : \A y \in S : x <= y

SeqsUpTo(S, n) == UNION {[1..k -> S] : k \in 0..n}

Range(s) == {s[i] : i \in 1..Len(s)}

(***************************************************************************)
(* strings.Split(ip, ","): an entry is held as the sequence of its         *)
(* comma-separated fields; the empty string splits into one empty field.   *)
(***************************************************************************)
Split(entry) == IF entry = <<>> THEN <<"">> ELSE entry

(***************************************************************************)
(* RoundRobinBalance                                                       *)
(***************************************************************************)
RRInit == [curIndex |-> 0, rss |-> <<>>, conf |-> NoConf]

\* Add: the error it returns and the object afterwards (both variants)
RRAddErr(params) == IF Len(params) = 0 THEN "params len 0" ELSE "nil"

RRAdd(r, params) ==
    IF Len(params) = 0 THEN r
    ELSE [r EXCEPT !.rss = Append(r.rss, params[1])]

\* (mutant) a stride of two
RRNextIndexStride(cur, lens) == (cur + 2) % lens

\* the cursor Next() stores: (r.curIndex + 1) % lens
RRNextIndex(cur, lens) == (cur + 1) % lens

RRNext(r) ==
    IF Len(r.rss) = 0 THEN r
    ELSE [r EXCEPT !.curIndex = RRNextIndex(r.curIndex, Len(r.rss))]

\* what Next() returns, given the object it leaves behind
RRNextRet(r) == IF Len(r.rss) = 0 THEN "" ELSE r.rss[r.curIndex + 1]

\* Get returns (r.Next(), nil)
RRGetErr(r) == "nil"

\* (mutant) attaching a source also resets the cursor
RRSetConfReset(r, conf) == [r EXCEPT !.conf = conf, !.curIndex = 0]

RRSetConf(r, conf) == [r EXCEPT !.conf = conf]

\* the pool Update() builds from a snapshot: parts[0] of every entry
RECURSIVE RRNewRss(_)
RRNewRss(list) ==
    IF list = <<>> THEN <<>>
    ELSE <<Split(list[1])[1]>> \o RRNewRss(Tail(list))

\* Update of the mutex variant: new pool, cursor reset
RRUpdate(r, list) ==
    IF r.conf \in ConfTypes
    THEN [r EXCEPT !.rss = RRNewRss(list), !.curIndex = 0]
    ELSE r

\* Update of the variant without mutex: empties rss and calls Add per entry;
\* curIndex is left alone
RECURSIVE RRAddAll(_, _)
RRAddAll(r, list) ==
    IF list = <<>> THEN r
    ELSE RRAddAll(RRAdd(r, Split(list[1])), Tail(list))

RRUpdateNoMux(r, list) ==
    IF r.conf \in ConfTypes
    THEN RRAddAll([r EXCEPT !.rss = <<>>], list)
    ELSE r

(***************************************************************************)
(* WeightRoundRobinBalance                                                 *)
(***************************************************************************)
WRRInit == [curIndex |-> 0, rsw |-> <<>>, rss |-> <<>>, conf |-> NoConf]

\* strconv.ParseInt(s, 10, 64) on the weight strings of the model
WeightStrs == {"-1", "0", "1", "2", "3", "4", "x", ""}

ParseIntOk(s) == s \in {"-1", "0", "1", "2", "3", "4"}

ParseInt(s) ==
    CASE s = "-1" -> -1
      [] s = "0" -> 0
      [] s = "1" -> 1
      [] s = "2" -> 2
      [] s = "3" -> 3
      [] s = "4" -> 4
      [] OTHER -> 0

NewWeightNode(addr, w) ==
    [addr |-> addr, weight |-> w, effectiveWeight |-> w, currentWeight |-> 0]

WRRAddErr(params) ==
    IF Len(params) # 2 THEN "param len need 2"
    ELSE IF ~ParseIntOk(params[2]) THEN "strconv.ParseInt: invalid syntax"
    ELSE "nil"

WRRAdd(r, params) ==
    IF WRRAddErr(params) # "nil" THEN r
    ELSE [r EXCEPT !.rss = Append(r.rss, NewWeightNode(params[1], ParseInt(params[2])))]

\* addInternal(addr, weightStr): no lock, same node
WRRaddInternal(r, addr, weightStr) ==
    IF ~ParseIntOk(weightStr) THEN r
    ELSE [r EXCEPT !.rss = Append(r.rss, NewWeightNode(addr, ParseInt(weightStr)))]

\* one iteration of the loop of Next() on node i (1-based); st is
\* [rss, total, best] with best = 0 for a nil best
\* (mutant) the node with the least accumulated weight is selected
WRRBetterLeast(rss, i, best) ==
    best = 0 \/ rss[i].currentWeight < rss[best].currentWeight

WRRBetter(rss, i, best) ==
    best = 0 \/ rss[i].currentWeight > rss[best].currentWeight

WRRLoopStep(st, i) ==
    LET w  == st.rss[i]
        w1 == [w EXCEPT !.currentWeight = w.currentWeight + w.effectiveWeight,
                        !.effectiveWeight = IF w.effectiveWeight < w.weight
                                            THEN w.effectiveWeight + 1
                                            ELSE w.effectiveWeight]
        rss1 == [st.rss EXCEPT ![i] = w1]
    IN [rss   |-> rss1,
        total |-> st.total + w.effectiveWeight,
        best  |-> IF WRRBetter(rss1, i, st.best) THEN i ELSE st.best]

RECURSIVE WRRLoop(_, _)
WRRLoop(st, i) ==
    IF i > Len(st.rss) THEN st ELSE WRRLoop(WRRLoopStep(st, i), i + 1)

\* (mutant) the selected node keeps its accumulated weight
WRRSettleKeep(st) == st.rss

\* (mutant) the selected node gives back its own weight, not the total
WRRSettleOwn(st) ==
    IF st.best = 0 THEN st.rss
    ELSE [st.rss EXCEPT ![st.best].currentWeight = @ - st.rss[st.best].weight]

\* (mutant) the selected node is also reported unhealthy: its effective
\* weight drops by one
WRRSettleDegrade(st) ==
    IF st.best = 0 THEN st.rss
    ELSE [st.rss EXCEPT ![st.best].currentWeight = @ - st.total,
                        ![st.best].effectiveWeight = @ - 1]

\* best.currentWeight -= total
WRRSettle(st) ==
    IF st.best = 0 THEN st.rss
    ELSE [st.rss EXCEPT ![st.best].currentWeight = @ - st.total]

\* the index (1-based, 0 for none) of the node Next() selects on r
WRRNextBest(r) ==
    IF Len(r.rss) = 0 THEN 0
    ELSE WRRLoop([rss |-> r.rss, total |-> 0, best |-> 0], 1).best

WRRNext(r) ==
    IF Len(r.rss) = 0 THEN r
    ELSE [r EXCEPT !.rss = WRRSettle(WRRLoop([rss |-> r.rss, total |-> 0, best |-> 0], 1))]

WRRNextRet(r) ==
    IF WRRNextBest(r) = 0 THEN "" ELSE r.rss[WRRNextBest(r)].addr

WRRGetErr(r) == "nil"

WRRSetConf(r, conf) == [r EXCEPT !.conf = conf]

\* Update: r.rss = r.rss[:0], then addInternal for every entry with >= 2 fields
RECURSIVE WRRAddAll(_, _)
WRRAddAll(r, list) ==
    IF list = <<>> THEN r
    ELSE LET parts == Split(list[1])
         IN WRRAddAll(IF Len(parts) >= 2
                      THEN WRRaddInternal(r, parts[1], parts[2])
                      ELSE r,
                      Tail(list))

\* (mutant) the rebuild keeps the nodes of the previous pool
WRRUpdateAppend(r, list) ==
    IF r.conf \in ConfTypes
    THEN WRRAddAll(r, list)
    ELSE r

WRRUpdate(r, list) ==
    IF r.conf \in ConfTypes
    THEN WRRAddAll([r EXCEPT !.rss = <<>>], list)
    ELSE r

(***************************************************************************)
(* ConsistentHashBanlance                                                  *)
(***************************************************************************)
MaxHash == 3            \* ring positions are 0..MaxHash

HashVals == 0..MaxHash
CHAddrs == {"a", "b"}

\* the replicas NewConsistentHashBanlance is called with
Replicas == {0, 1, 2}

\* strconv.Itoa(i) + addr, the input hashed for virtual node i of addr
VNode(i, addr) == <<i, addr>>
VNodes(replicas) == {VNode(i, a) : i \in 0..(replicas - 1), a \in CHAddrs}

\* the lookup keys of the model: for every ring position h one key, <<h, "key">>,
\* that hashes to h
LookupKeys == {<<h, "key">> : h \in HashVals}

CHEmptyMap == [h \in HashVals |-> ""]

CHInit(replicas) ==
    [replicas |-> replicas, keys |-> <<>>, hashMap |-> CHEmptyMap, conf |-> NoConf]

\* c.hash([]byte(...)): the virtual nodes hash as hashFn says, the lookup key
\* <<h, "key">> hashes to h
Hash(x) == IF x[2] = "key" THEN x[1] ELSE hashFn[x]

IsEmpty(c) == Len(c.keys) = 0

\* sort.Sort(c.keys): insertion of every element into an ascending sequence
RECURSIVE InsertSorted(_, _)
InsertSorted(s, x) ==
    IF s = <<>> THEN <<x>>
    ELSE IF x < Head(s) THEN <<x>> \o s
    ELSE <<Head(s)>> \o InsertSorted(Tail(s), x)

\* (mutant) the new positions stay where they were appended
SortKeysNot(s) == s

RECURSIVE SortKeys(_)
SortKeys(s) == IF s = <<>> THEN <<>> ELSE InsertSorted(SortKeys(Tail(s)), Head(s))

\* the loop of Add: for i := 0; i < c.replicas; i++
RECURSIVE CHAddLoop(_, _, _)
CHAddLoop(c, addr, i) ==
    IF i >= c.replicas THEN c
    ELSE LET hash == Hash(VNode(i, addr))
         IN CHAddLoop([c EXCEPT !.keys = Append(c.keys, hash),
                                !.hashMap[hash] = addr],
                      addr, i + 1)

CHAddErr(params) == "nil"

CHAdd(c, params) ==
    IF Len(params) = 0 THEN c
    ELSE LET c1 == CHAddLoop(c, params[1], 0)
         IN [c1 EXCEPT !.keys = SortKeys(c1.keys)]

\* sort.Search(n, f) with f(i) = keys[i] >= hash: Go's binary search, 0-based
RECURSIVE SearchLoop(_, _, _, _)
SearchLoop(keys, hash, i, j) ==
    IF i >= j THEN i
    ELSE LET h == (i + j) \div 2
         IN IF ~(keys[h + 1] >= hash)
            THEN SearchLoop(keys, hash, h + 1, j)
            ELSE SearchLoop(keys, hash, i, h)

\* (mutant) the first entry > hash instead of >= hash
RECURSIVE SearchLoopGreater(_, _, _, _)
SearchLoopGreater(keys, hash, i, j) ==
    IF i >= j THEN i
    ELSE LET h == (i + j) \div 2
         IN IF ~(keys[h + 1] > hash)
            THEN SearchLoopGreater(keys, hash, h + 1, j)
            ELSE SearchLoopGreater(keys, hash, i, h)

SearchGreater(keys, hash) == SearchLoopGreater(keys, hash, 0, Len(keys))

Search(keys, hash) == SearchLoop(keys, hash, 0, Len(keys))

\* idx after the wrap: if idx == len(c.keys) { idx = 0 }
CHIndex(keys, hash) ==
    IF Search(keys, hash) = Len(keys) THEN 0 ELSE Search(keys, hash)

CHGetErr(c, key) == IF IsEmpty(c) THEN "node is Empty!" ELSE "nil"

CHGetRet(c, key) ==
    IF IsEmpty(c) THEN ""
    ELSE c.hashMap[c.keys[CHIndex(c.keys, Hash(key)) + 1]]

CHSetConf(c, conf) == [c EXCEPT !.conf = conf]

\* Update up to its first c.Add: the ring is cleared under the write lock
CHClear(c) == [c EXCEPT !.keys = <<>>, !.hashMap = CHEmptyMap]

\* Update takes the write lock and then, for every entry, calls Add, which
\* takes the write lock again: with one entry or more it never returns
CHUpdateBlocks(c, list) == c.conf \in ConfTypes /\ Len(list) > 0

CHUpdate(c, list) == IF c.conf \in ConfTypes THEN CHClear(c) ELSE c

(***************************************************************************)
(* The membership source (LoadBalanceZkConf / LoadBalanceCheckConf): the   *)
(* snapshots GetConf() may return.  TestConf is the pool of                *)
(* TestWeightRoundRobinBalance.                                            *)
(***************************************************************************)
TestConf == << <<"a", "4">>, <<"b", "3">>, <<"c", "2">>, <<"d", "1">> >>

ConfChoices ==
    { <<>>,
      << <<"a">>, <<"b">> >>,
      << <<"b", "2">>, <<"c", "1">> >>,
      << <<"a", "x">>, <<>>, <<"c", "0">>, <<"b", "1">> >>,
      TestConf }

(***************************************************************************)
(* Spec: one caller, one action per operation.                             *)
(***************************************************************************)
\* the ZkManager before any connection or subscription
ZkIdle ==
    [conn |-> FALSE, lconn |-> "none", wpc |-> "none", data |-> 1,
     snapshot |-> 0,
     evt |-> "none", snaps |-> <<>>, snapCap |-> 0, snapClosed |-> FALSE,
     errs |-> <<>>, errCap |-> 0, errClosed |-> FALSE,
     errSent |-> 0, errSeen |-> FALSE]

MaxHandles == 2     \* zk.Connect does not succeed more often than this in one run
MaxVersion == 2     \* the version counter of the data node does not go beyond this

Handles == 1..MaxHandles

\* SpecSession: the ZkManager (conn = 0 is nil), the handles zk.Connect has
\* returned, the package-level zkPool, the reconnect goroutines started by
\* eventCallback (pending of them sleep; notif notifications were sent,
\* attempts GetConnect calls were made by reconnect), and the registry: the durable group node, its ephemeral child (child is the
\* handle whose session owns it, 0 when absent) and the data node
SessIdle ==
    [conn |-> 0, connected |-> FALSE,
     hs |-> [h \in Handles |-> "unused"],
     pool |-> {},
     pending |-> 0, notif |-> 0, attempts |-> 0,
     group |-> FALSE, child |-> 0,
     node |-> [ex |-> FALSE, data |-> 0, ver |-> 0]]

\* SpecDirector: no request is being routed
ReqIdle == [phase |-> "none"]

NoLock == [writer |-> 0, readers |-> {}]

Call(op, arg, ret, err, pre) ==
    [op |-> op, arg |-> arg, ret |-> ret, err |-> err, pre |-> pre]

ConcIdle ==
    /\ pc = <<>>
    /\ loc = <<>>
    /\ hist = <<>>

InitSeqOf(kinds) ==
    /\ kind \in kinds
    /\ rr = RRInit
    /\ wrr = WRRInit
    /\ \E n \in (IF kind = "ConsistentHash" THEN Replicas ELSE {0}) :
          /\ ch = CHInit(n)
          /\ hashFn \in [VNodes(n) -> HashVals]
    /\ zk = ZkIdle
    /\ sess = SessIdle
    /\ req = ReqIdle
    /\ confList = <<>>
    /\ last = Call("New", <<>>, "", "nil", <<>>)
    /\ log = <<>>
    /\ added = <<>>
    /\ fresh = TRUE
    /\ mux = NoLock
    /\ ConcIdle

InitSeq == InitSeqOf(Kinds)

\* the caller is not blocked inside an earlier call
CallerFree == mux.writer = 0

IsRR == kind \in {"RoundRobinNoMux", "RoundRobin"}

\* the inputs of Add
RRAddInputs == {<<>>} \cup {<<a>> : a \in Addrs}

\* the k-th node of a WeightRoundRobinBalance gets the k-th address
WRRAddrOf(k) == <<"a", "b", "c", "d", "e", "f">>[k]

WRRAddInputs(r) ==
    {<<>>, <<WRRAddrOf(Len(r.rss) + 1)>>, <<WRRAddrOf(Len(r.rss) + 1), "x">>}
    \cup {<<WRRAddrOf(Len(r.rss) + 1), w>> : w \in {"-1", "0", "1"}}

CHAddInputs == {<<>>} \cup {<<a>> : a \in CHAddrs}

AddRR ==
    /\ IsRR /\ CallerFree
    /\ Len(rr.rss) < MaxPool
    /\ \E params \in RRAddInputs :
        /\ rr' = RRAdd(rr, params)
        /\ last' = Call("Add", params, "", RRAddErr(params), rr)
        /\ added' = IF rr'.rss # rr.rss THEN Append(added, params[1]) ELSE added
        /\ log' = IF rr'.rss # rr.rss THEN <<>> ELSE log
        /\ fresh' = IF rr'.rss # rr.rss THEN (fresh /\ log = <<>>) ELSE fresh
    /\ UNCHANGED <<kind, zk, sess, req, wrr, ch, hashFn, confList, concVars>>

AddWRR ==
    /\ kind = "WeightRoundRobin" /\ CallerFree
    /\ Len(wrr.rss) < MaxPool
    /\ \E params \in WRRAddInputs(wrr) :
        /\ wrr' = WRRAdd(wrr, params)
        /\ last' = Call("Add", params, "", WRRAddErr(params), wrr)
        /\ added' = IF wrr'.rss # wrr.rss THEN Append(added, params[1]) ELSE added
        /\ log' = IF wrr'.rss # wrr.rss THEN <<>> ELSE log
        /\ fresh' = IF wrr'.rss # wrr.rss THEN (fresh /\ log = <<>>) ELSE fresh
    /\ UNCHANGED <<kind, zk, sess, req, rr, ch, hashFn, confList, concVars>>

AddCH ==
    /\ kind = "ConsistentHash" /\ CallerFree
    /\ Len(added) < MaxPool
    /\ \E params \in CHAddInputs :
        /\ ch' = CHAdd(ch, params)
        /\ last' = Call("Add", params, "", CHAddErr(params), ch)
        /\ added' = IF Len(params) > 0 THEN Append(added, params[1]) ELSE added
    /\ UNCHANGED <<kind, zk, sess, req, rr, wrr, hashFn, confList, log, fresh, concVars>>

\* Get(key) of the round-robin variants: (r.Next(), nil); the key is ignored
GetRR ==
    /\ IsRR /\ CallerFree
    /\ Len(log) < MaxCalls
    /\ rr' = RRNext(rr)
    /\ last' = Call("Get", <<>>, RRNextRet(rr'), RRGetErr(rr), rr)
    /\ log' = IF Len(rr.rss) = 0 THEN log
              ELSE Append(log, [idx |-> rr'.curIndex, addr |-> RRNextRet(rr')])
    /\ UNCHANGED <<kind, zk, sess, req, wrr, ch, hashFn, confList, added, fresh, concVars>>

GetWRR ==
    /\ kind = "WeightRoundRobin" /\ CallerFree
    /\ Len(log) < MaxCalls
    /\ wrr' = WRRNext(wrr)
    /\ last' = Call("Get", <<>>, WRRNextRet(wrr), WRRGetErr(wrr), wrr)
    /\ log' = IF Len(wrr.rss) = 0 THEN log
              ELSE Append(log, [idx |-> WRRNextBest(wrr) - 1, addr |-> WRRNextRet(wrr)])
    /\ UNCHANGED <<kind, zk, sess, req, rr, ch, hashFn, confList, added, fresh, concVars>>

GetCH ==
    /\ kind = "ConsistentHash" /\ CallerFree
    /\ \E key \in LookupKeys :
        last' = Call("Get", key, CHGetRet(ch, key), CHGetErr(ch, key), ch)
    /\ UNCHANGED <<kind, zk, sess, req, rr, wrr, ch, hashFn, confList, log, added, fresh, concVars>>

\* a detached source keeps nothing the strategy can read
ListAfterSetConf(conf) == IF conf = NoConf THEN <<>> ELSE confList

SetConfRR ==
    /\ IsRR /\ CallerFree
    /\ \E conf \in ConfTypes \cup {NoConf} :
        /\ rr' = RRSetConf(rr, conf)
        /\ last' = Call("SetConf", <<conf>>, "", "nil", rr)
        /\ confList' = ListAfterSetConf(conf)
    /\ UNCHANGED <<kind, zk, sess, req, wrr, ch, hashFn, log, added, fresh, concVars>>

SetConfWRR ==
    /\ kind = "WeightRoundRobin" /\ CallerFree
    /\ \E conf \in ConfTypes \cup {NoConf} :
        /\ wrr' = WRRSetConf(wrr, conf)
        /\ last' = Call("SetConf", <<conf>>, "", "nil", wrr)
        /\ confList' = ListAfterSetConf(conf)
    /\ UNCHANGED <<kind, zk, sess, req, rr, ch, hashFn, log, added, fresh, concVars>>

SetConfCH ==
    /\ kind = "ConsistentHash" /\ CallerFree
    /\ \E conf \in ConfTypes \cup {NoConf} :
        /\ ch' = CHSetConf(ch, conf)
        /\ last' = Call("SetConf", <<conf>>, "", "nil", ch)
        /\ confList' = ListAfterSetConf(conf)
    /\ UNCHANGED <<kind, zk, sess, req, rr, wrr, hashFn, log, added, fresh, concVars>>

\* Update() running on the snapshot list
DoUpdateRR(list) ==
    /\ rr' = IF kind = "RoundRobin" THEN RRUpdate(rr, list) ELSE RRUpdateNoMux(rr, list)
    /\ last' = Call("Update", list, "", "nil", rr)
    /\ log' = IF rr.conf \in ConfTypes THEN <<>> ELSE log
    /\ added' = IF rr.conf \in ConfTypes THEN rr'.rss ELSE added
    /\ fresh' = IF rr.conf \in ConfTypes THEN rr'.curIndex = 0 ELSE fresh

DoUpdateWRR(list) ==
    /\ wrr' = WRRUpdate(wrr, list)
    /\ last' = Call("Update", list, "", "nil", wrr)
    /\ log' = IF wrr.conf \in ConfTypes THEN <<>> ELSE log
    /\ added' = IF wrr.conf \in ConfTypes
                THEN [i \in 1..Len(wrr'.rss) |-> wrr'.rss[i].addr]
                ELSE added
    /\ fresh' = IF wrr.conf \in ConfTypes THEN TRUE ELSE fresh

\* with one entry or more the caller stays blocked in Update, holding the lock
DoUpdateCH(list) ==
    /\ ch' = CHUpdate(ch, list)
    /\ last' = Call(IF CHUpdateBlocks(ch, list) THEN "UpdateBlocked" ELSE "Update",
                    list, "", "nil", ch)
    /\ mux' = IF CHUpdateBlocks(ch, list) THEN [mux EXCEPT !.writer = 1] ELSE mux
    /\ added' = IF ch.conf \in ConfTypes THEN <<>> ELSE added
    /\ fresh' = fresh

\* a direct (possibly redundant) call of Update()
UpdateRR ==
    /\ IsRR /\ CallerFree
    /\ DoUpdateRR(confList)
    /\ UNCHANGED <<kind, zk, sess, req, wrr, ch, hashFn, confList, concVars>>

UpdateWRR ==
    /\ kind = "WeightRoundRobin" /\ CallerFree
    /\ DoUpdateWRR(confList)
    /\ UNCHANGED <<kind, zk, sess, req, rr, ch, hashFn, confList, concVars>>

UpdateCH ==
    /\ kind = "ConsistentHash" /\ CallerFree
    /\ DoUpdateCH(confList)
    /\ UNCHANGED <<kind, zk, sess, req, rr, wrr, hashFn, confList, log, pc, loc, hist>>

\* the attached source sees its membership change and notifies its observer:
\* the new list is what GetConf() returns when Update() runs
UpdateConfRR ==
    /\ IsRR /\ CallerFree
    /\ rr.conf \in ConfTypes
    /\ \E list \in ConfChoices \ {confList} :
        /\ confList' = list
        /\ DoUpdateRR(list)
    /\ UNCHANGED <<kind, zk, sess, req, wrr, ch, hashFn, concVars>>

UpdateConfWRR ==
    /\ kind = "WeightRoundRobin" /\ CallerFree
    /\ wrr.conf \in ConfTypes
    /\ \E list \in ConfChoices \ {confList} :
        /\ confList' = list
        /\ DoUpdateWRR(list)
    /\ UNCHANGED <<kind, zk, sess, req, rr, ch, hashFn, concVars>>

UpdateConfCH ==
    /\ kind = "ConsistentHash" /\ CallerFree
    /\ ch.conf \in ConfTypes
    /\ \E list \in ConfChoices \ {confList} :
        /\ confList' = list
        /\ DoUpdateCH(list)
    /\ UNCHANGED <<kind, zk, sess, req, rr, wrr, hashFn, log, pc, loc, hist>>

NextRR == AddRR \/ GetRR \/ SetConfRR \/ UpdateRR \/ UpdateConfRR

NextWRR == AddWRR \/ GetWRR \/ SetConfWRR \/ UpdateWRR \/ UpdateConfWRR

NextCH == AddCH \/ GetCH \/ SetConfCH \/ UpdateCH \/ UpdateConfCH

Next == NextRR \/ NextWRR \/ NextCH

\* every strategy type
Spec == InitSeq /\ [][Next]_vars

\* one strategy type each
InitRR == InitSeqOf({"RoundRobinNoMux", "RoundRobin"})

InitWRR == InitSeqOf({"WeightRoundRobin"})

InitCH == InitSeqOf({"ConsistentHash"})

SpecRR == InitRR /\ [][NextRR]_vars

SpecWRR == InitWRR /\ [][NextWRR]_vars

SpecCH == InitCH /\ [][NextCH]_vars

(***************************************************************************)
(* SpecTest: TestWeightRoundRobinBalance, the four Add calls of the test   *)
(* in their order, with Next() called at any point.                        *)
(***************************************************************************)
AddTest ==
    /\ kind = "WeightRoundRobin" /\ CallerFree
    /\ Len(added) < Len(TestConf)
    /\ LET params == TestConf[Len(added) + 1]
       IN /\ wrr' = WRRAdd(wrr, params)
          /\ last' = Call("Add", params, "", WRRAddErr(params), wrr)
          /\ added' = Append(added, params[1])
          /\ log' = <<>>
          /\ fresh' = (fresh /\ log = <<>>)
    /\ UNCHANGED <<kind, zk, sess, req, rr, ch, hashFn, confList, concVars>>

NextTest == AddTest \/ GetWRR

SpecTest == InitWRR /\ [][NextTest]_vars

(***************************************************************************)
(* SpecConc: several goroutines call Get, Add, SetConf and Update on one   *)
(* strategy object.  A call is a sequence of steps, one for each lock      *)
(* operation and each read or write of a shared field; pc[p] is the step   *)
(* goroutine p takes next and loc[p] holds its local variables.            *)
(* sync.RWMutex: Lock waits until no writer and no reader holds the lock   *)
(* (also when the caller itself holds it: the lock is not reentrant),      *)
(* RLock waits until no writer holds it.                                   *)
(***************************************************************************)
NumProcs == 2       \* goroutines
MaxConcCalls == 3   \* selections made on one pool before no further Get is started

Procs == 1..NumProcs

ConcKinds == {"RoundRobin", "WeightRoundRobin", "ConsistentHash"}

ConcConfChoices ==
    { <<>>,
      << <<"a", "1">> >>,
      << <<"b", "2">>, <<"c", "1">> >> }

\* the hash functions of SpecConc: every position is 0 or MaxHash, and the
\* first virtual node of "a" is at MaxHash
ConcHashFns(n) ==
    {f \in [VNodes(n) -> {0, MaxHash}] :
        \A x \in VNodes(n) : x = VNode(0, "a") => f[x] = MaxHash}

LocInit ==
    [op |-> "", params |-> <<>>, conf |-> NoConf, key |-> <<0, "key">>,
     lens |-> 0, cur |-> 0, i |-> 0, total |-> 0, best |-> 0,
     list |-> <<>>, new |-> <<>>, hash |-> 0, idx |-> 0,
     ret |-> "", err |-> "nil", held |-> 0]

\* (mutant) the lock is taken without waiting for its holder
CanLockAlways(p) == TRUE

\* Lock() returns only when nobody holds the lock
CanLock(p) == mux.writer = 0 /\ mux.readers = {}

\* (mutant) the read lock is granted while a writer holds the lock
CanRLockAlways(p) == TRUE

\* RLock() returns only when no writer holds the lock
CanRLock(p) == mux.writer = 0

Lock(p) == CanLock(p) /\ mux' = [mux EXCEPT !.writer = p]

Unlock(p) == mux' = [mux EXCEPT !.writer = 0]

RLock(p) == CanRLock(p) /\ mux' = [mux EXCEPT !.readers = @ \cup {p}]

RUnlock(p) == mux' = [mux EXCEPT !.readers = @ \ {p}]

Goto(p, label) == pc' = [pc EXCEPT ![p] = label]

\* the addresses of the pool as the object holds them now
PoolNow ==
    CASE kind = "RoundRobin" -> rr.rss
      [] kind = "WeightRoundRobin" -> [k \in 1..Len(wrr.rss) |-> wrr.rss[k].addr]
      [] OTHER -> <<>>

InitConc ==
    /\ kind \in ConcKinds
    /\ rr = RRInit
    /\ wrr = WRRInit
    /\ \E n \in (IF kind = "ConsistentHash" THEN Replicas \ {0} ELSE {0}) :
          /\ ch = CHInit(n)
          /\ hashFn \in ConcHashFns(n)
    /\ zk = ZkIdle
    /\ sess = SessIdle
    /\ req = ReqIdle
    /\ confList = <<>>
    /\ last = Call("New", <<>>, "", "nil", <<>>)
    /\ log = <<>>
    /\ added = <<>>
    /\ fresh = TRUE
    /\ mux = NoLock
    /\ pc = [p \in Procs |-> "idle"]
    /\ loc = [p \in Procs |-> LocInit]
    /\ hist = [pool |-> <<>>]

\* the membership source changes what GetConf() returns
ConfChange ==
    /\ \E list \in ConcConfChoices \ {confList} : confList' = list
    /\ UNCHANGED <<kind, zk, sess, req, rr, wrr, ch, hashFn, last, log, added, fresh, concVars>>

\* a call returns: its locals are gone
Return(p) ==
    /\ pc' = [pc EXCEPT ![p] = "idle"]
    /\ loc' = [loc EXCEPT ![p] = LocInit]

(***************************************************************************)
(* RoundRobinBalance (mutex variant), step by step                         *)
(***************************************************************************)
RRcStartGet(p) ==
    /\ kind = "RoundRobin" /\ pc[p] = "idle"
    /\ Len(log) < MaxConcCalls
    /\ loc' = [loc EXCEPT ![p] = [LocInit EXCEPT !.op = "Get"]]
    /\ Goto(p, "next_lock")
    /\ UNCHANGED <<lbVars, mux, hist>>

\* r.mux.Lock()
RRcNextLock(p) ==
    /\ kind = "RoundRobin" /\ pc[p] = "next_lock"
    /\ Lock(p)
    /\ Goto(p, "next_len")
    /\ UNCHANGED <<lbVars, loc, hist>>

\* if len(r.rss) == 0 { return "" }; lens := len(r.rss)
RRcNextLen(p) ==
    /\ kind = "RoundRobin" /\ pc[p] = "next_len"
    /\ loc' = [loc EXCEPT ![p].lens = Len(rr.rss), ![p].ret = ""]
    /\ Goto(p, IF Len(rr.rss) = 0 THEN "next_unlock" ELSE "next_load")
    /\ UNCHANGED <<lbVars, mux, hist>>

\* the read of r.curIndex in r.curIndex = (r.curIndex + 1) % lens
RRcNextLoad(p) ==
    /\ kind = "RoundRobin" /\ pc[p] = "next_load"
    /\ loc' = [loc EXCEPT ![p].cur = rr.curIndex]
    /\ Goto(p, "next_store")
    /\ UNCHANGED <<lbVars, mux, hist>>

\* the write of r.curIndex
RRcNextStore(p) ==
    /\ kind = "RoundRobin" /\ pc[p] = "next_store"
    /\ rr' = [rr EXCEPT !.curIndex = RRNextIndex(loc[p].cur, loc[p].lens)]
    /\ Goto(p, "next_read")
    /\ UNCHANGED <<kind, zk, sess, req, wrr, ch, hashFn, confList, last, log, added, fresh, loc, mux, hist>>

\* return r.rss[r.curIndex]: an index outside the slice panics
RRcNextRead(p) ==
    /\ kind = "RoundRobin" /\ pc[p] = "next_read"
    /\ IF rr.curIndex < Len(rr.rss)
       THEN /\ loc' = [loc EXCEPT ![p].ret = rr.rss[rr.curIndex + 1]]
            /\ log' = Append(log, [idx |-> rr.curIndex, addr |-> rr.rss[rr.curIndex + 1]])
       ELSE /\ loc' = [loc EXCEPT ![p].err = "panic"]
            /\ log' = log
    /\ Goto(p, "next_unlock")
    /\ UNCHANGED <<kind, zk, sess, req, rr, wrr, ch, hashFn, confList, last, added, fresh, mux, hist>>

\* defer r.mux.Unlock(); Get returns (r.Next(), nil)
RRcNextUnlock(p) ==
    /\ kind = "RoundRobin" /\ pc[p] = "next_unlock"
    /\ Unlock(p)
    /\ Return(p)
    /\ UNCHANGED <<lbVars, hist>>

\* Add(params...): without parameters it returns an error before the lock
RRcStartAdd(p) ==
    /\ kind = "RoundRobin" /\ pc[p] = "idle"
    /\ Len(rr.rss) < MaxPool - 1
    /\ \E params \in {<<>>, <<"a">>, <<"b">>} :
        IF Len(params) = 0
        THEN UNCHANGED vars
        ELSE /\ loc' = [loc EXCEPT ![p] = [LocInit EXCEPT !.op = "Add", !.params = params]]
             /\ Goto(p, "add_lock")
             /\ UNCHANGED <<lbVars, mux, hist>>

RRcAddLock(p) ==
    /\ kind = "RoundRobin" /\ pc[p] = "add_lock"
    /\ Lock(p)
    /\ Goto(p, "add_append")
    /\ UNCHANGED <<lbVars, loc, hist>>

\* r.rss = append(r.rss, addr)
RRcAddAppend(p) ==
    /\ kind = "RoundRobin" /\ pc[p] = "add_append"
    /\ rr' = RRAdd(rr, loc[p].params)
    /\ log' = <<>>
    /\ fresh' = (fresh /\ log = <<>>)
    /\ Goto(p, "add_unlock")
    /\ UNCHANGED <<kind, zk, sess, req, wrr, ch, hashFn, confList, last, added, loc, mux, hist>>

RRcAddUnlock(p) ==
    /\ kind = "RoundRobin" /\ pc[p] = "add_unlock"
    /\ Unlock(p)
    /\ hist' = [hist EXCEPT !.pool = PoolNow]
    /\ Return(p)
    /\ UNCHANGED lbVars

RRcStartSetConf(p) ==
    /\ kind = "RoundRobin" /\ pc[p] = "idle"
    /\ \E conf \in ConfTypes \ {rr.conf} :
        loc' = [loc EXCEPT ![p] = [LocInit EXCEPT !.op = "SetConf", !.conf = conf]]
    /\ Goto(p, "setconf_lock")
    /\ UNCHANGED <<lbVars, mux, hist>>

RRcSetConfLock(p) ==
    /\ kind = "RoundRobin" /\ pc[p] = "setconf_lock"
    /\ Lock(p)
    /\ Goto(p, "setconf_store")
    /\ UNCHANGED <<lbVars, loc, hist>>

\* r.conf = conf
RRcSetConfStore(p) ==
    /\ kind = "RoundRobin" /\ pc[p] = "setconf_store"
    /\ rr' = RRSetConf(rr, loc[p].conf)
    /\ Goto(p, "setconf_unlock")
    /\ UNCHANGED <<kind, zk, sess, req, wrr, ch, hashFn, confList, last, log, added, fresh, loc, mux, hist>>

RRcSetConfUnlock(p) ==
    /\ kind = "RoundRobin" /\ pc[p] = "setconf_unlock"
    /\ Unlock(p)
    /\ Return(p)
    /\ UNCHANGED <<lbVars, hist>>

RRcStartUpdate(p) ==
    /\ kind = "RoundRobin" /\ pc[p] = "idle"
    /\ loc' = [loc EXCEPT ![p] = [LocInit EXCEPT !.op = "Update"]]
    /\ Goto(p, "upd_lock")
    /\ UNCHANGED <<lbVars, mux, hist>>

RRcUpdLock(p) ==
    /\ kind = "RoundRobin" /\ pc[p] = "upd_lock"
    /\ Lock(p)
    /\ Goto(p, "upd_conf")
    /\ UNCHANGED <<lbVars, loc, hist>>

\* the type switch on r.conf; newRss is built from conf.GetConf()
RRcUpdConf(p) ==
    /\ kind = "RoundRobin" /\ pc[p] = "upd_conf"
    /\ IF rr.conf \in ConfTypes
       THEN /\ loc' = [loc EXCEPT ![p].list = confList, ![p].new = RRNewRss(confList)]
            /\ Goto(p, "upd_rss")
       ELSE /\ loc' = loc
            /\ Goto(p, "upd_unlock")
    /\ UNCHANGED <<lbVars, mux, hist>>

\* r.rss = newRss
RRcUpdRss(p) ==
    /\ kind = "RoundRobin" /\ pc[p] = "upd_rss"
    /\ rr' = [rr EXCEPT !.rss = loc[p].new]
    /\ log' = <<>>
    /\ fresh' = (fresh /\ log = <<>>)
    /\ Goto(p, "upd_idx")
    /\ UNCHANGED <<kind, zk, sess, req, wrr, ch, hashFn, confList, last, added, loc, mux, hist>>

\* r.curIndex = 0
RRcUpdIdx(p) ==
    /\ kind = "RoundRobin" /\ pc[p] = "upd_idx"
    /\ rr' = [rr EXCEPT !.curIndex = 0]
    /\ fresh' = TRUE
    /\ Goto(p, "upd_unlock")
    /\ UNCHANGED <<kind, zk, sess, req, wrr, ch, hashFn, confList, last, log, added, loc, mux, hist>>

RRcUpdUnlock(p) ==
    /\ kind = "RoundRobin" /\ pc[p] = "upd_unlock"
    /\ Unlock(p)
    /\ hist' = [hist EXCEPT !.pool = PoolNow]
    /\ Return(p)
    /\ UNCHANGED lbVars

NextRRc ==
    \E p \in Procs :
        \/ RRcStartGet(p) \/ RRcNextLock(p) \/ RRcNextLen(p) \/ RRcNextLoad(p)
        \/ RRcNextStore(p) \/ RRcNextRead(p) \/ RRcNextUnlock(p)
        \/ RRcStartAdd(p) \/ RRcAddLock(p) \/ RRcAddAppend(p) \/ RRcAddUnlock(p)
        \/ RRcStartSetConf(p) \/ RRcSetConfLock(p) \/ RRcSetConfStore(p)
        \/ RRcSetConfUnlock(p)
        \/ RRcStartUpdate(p) \/ RRcUpdLock(p) \/ RRcUpdConf(p) \/ RRcUpdRss(p)
        \/ RRcUpdIdx(p) \/ RRcUpdUnlock(p)

(***************************************************************************)
(* WeightRoundRobinBalance, step by step                                   *)
(***************************************************************************)
WRRcStartGet(p) ==
    /\ kind = "WeightRoundRobin" /\ pc[p] = "idle"
    /\ Len(log) < MaxConcCalls
    /\ loc' = [loc EXCEPT ![p] = [LocInit EXCEPT !.op = "Get"]]
    /\ Goto(p, "next_lock")
    /\ UNCHANGED <<lbVars, mux, hist>>

WRRcNextLock(p) ==
    /\ kind = "WeightRoundRobin" /\ pc[p] = "next_lock"
    /\ Lock(p)
    /\ Goto(p, "next_len")
    /\ UNCHANGED <<lbVars, loc, hist>>

\* if len(r.rss) == 0 { return "" }; total := 0; var best *WeightNode; i := 0
WRRcNextLen(p) ==
    /\ kind = "WeightRoundRobin" /\ pc[p] = "next_len"
    /\ loc' = [loc EXCEPT ![p].i = 1, ![p].total = 0, ![p].best = 0]
    /\ Goto(p, IF Len(wrr.rss) = 0 THEN "next_unlock" ELSE "next_loop")
    /\ UNCHANGED <<lbVars, mux, hist>>

\* one iteration of for i := 0; i < len(r.rss); i++
WRRcNextLoop(p) ==
    /\ kind = "WeightRoundRobin" /\ pc[p] = "next_loop"
    /\ IF loc[p].i > Len(wrr.rss)
       THEN /\ Goto(p, "next_settle")
            /\ UNCHANGED <<wrr, loc>>
       ELSE LET st == WRRLoopStep([rss |-> wrr.rss, total |-> loc[p].total,
                                   best |-> Min({loc[p].best, Len(wrr.rss)})],
                                  loc[p].i)
            IN /\ wrr' = [wrr EXCEPT !.rss = st.rss]
               /\ loc' = [loc EXCEPT ![p].i = @ + 1, ![p].total = st.total,
                                     ![p].best = st.best]
               /\ UNCHANGED pc
    /\ UNCHANGED <<kind, zk, sess, req, rr, ch, hashFn, confList, last, log, added, fresh, mux, hist>>

\* best.currentWeight -= total; return best.addr
WRRcNextSettle(p) ==
    /\ kind = "WeightRoundRobin" /\ pc[p] = "next_settle"
    /\ LET best == Min({loc[p].best, Len(wrr.rss)})
           st == [rss |-> wrr.rss, total |-> loc[p].total, best |-> best]
       IN /\ wrr' = [wrr EXCEPT !.rss = WRRSettle(st)]
          /\ loc' = [loc EXCEPT ![p].ret = IF best = 0 THEN "" ELSE wrr.rss[best].addr]
          /\ log' = IF best = 0 THEN log
                    ELSE Append(log, [idx |-> best - 1, addr |-> wrr.rss[best].addr])
    /\ Goto(p, "next_unlock")
    /\ UNCHANGED <<kind, zk, sess, req, rr, ch, hashFn, confList, last, added, fresh, mux, hist>>

WRRcNextUnlock(p) ==
    /\ kind = "WeightRoundRobin" /\ pc[p] = "next_unlock"
    /\ Unlock(p)
    /\ Return(p)
    /\ UNCHANGED <<lbVars, hist>>

\* Add(params...): the parameter checks come before the lock
WRRcStartAdd(p) ==
    /\ kind = "WeightRoundRobin" /\ pc[p] = "idle"
    /\ Len(wrr.rss) < MaxPool - 1
    /\ \E params \in {<<"a">>, <<"a", "x">>, <<"a", "2">>, <<"b", "1">>} :
        IF WRRAddErr(params) # "nil"
        THEN UNCHANGED vars
        ELSE /\ loc' = [loc EXCEPT ![p] = [LocInit EXCEPT !.op = "Add", !.params = params]]
             /\ Goto(p, "add_lock")
             /\ UNCHANGED <<lbVars, mux, hist>>

WRRcAddLock(p) ==
    /\ kind = "WeightRoundRobin" /\ pc[p] = "add_lock"
    /\ Lock(p)
    /\ Goto(p, "add_append")
    /\ UNCHANGED <<lbVars, loc, hist>>

\* r.rss = append(r.rss, curNode)
WRRcAddAppend(p) ==
    /\ kind = "WeightRoundRobin" /\ pc[p] = "add_append"
    /\ wrr' = WRRAdd(wrr, loc[p].params)
    /\ log' = <<>>
    /\ fresh' = (fresh /\ log = <<>>)
    /\ Goto(p, "add_unlock")
    /\ UNCHANGED <<kind, zk, sess, req, rr, ch, hashFn, confList, last, added, loc, mux, hist>>

WRRcAddUnlock(p) ==
    /\ kind = "WeightRoundRobin" /\ pc[p] = "add_unlock"
    /\ Unlock(p)
    /\ hist' = [hist EXCEPT !.pool = PoolNow]
    /\ Return(p)
    /\ UNCHANGED lbVars

WRRcStartSetConf(p) ==
    /\ kind = "WeightRoundRobin" /\ pc[p] = "idle"
    /\ \E conf \in ConfTypes \ {wrr.conf} :
        loc' = [loc EXCEPT ![p] = [LocInit EXCEPT !.op = "SetConf", !.conf = conf]]
    /\ Goto(p, "setconf_lock")
    /\ UNCHANGED <<lbVars, mux, hist>>

WRRcSetConfLock(p) ==
    /\ kind = "WeightRoundRobin" /\ pc[p] = "setconf_lock"
    /\ Lock(p)
    /\ Goto(p, "setconf_store")
    /\ UNCHANGED <<lbVars, loc, hist>>

WRRcSetConfStore(p) ==
    /\ kind = "WeightRoundRobin" /\ pc[p] = "setconf_store"
    /\ wrr' = WRRSetConf(wrr, loc[p].conf)
    /\ Goto(p, "setconf_unlock")
    /\ UNCHANGED <<kind, zk, sess, req, rr, ch, hashFn, confList, last, log, added, fresh, loc, mux, hist>>

WRRcSetConfUnlock(p) ==
    /\ kind = "WeightRoundRobin" /\ pc[p] = "setconf_unlock"
    /\ Unlock(p)
    /\ Return(p)
    /\ UNCHANGED <<lbVars, hist>>

WRRcStartUpdate(p) ==
    /\ kind = "WeightRoundRobin" /\ pc[p] = "idle"
    /\ loc' = [loc EXCEPT ![p] = [LocInit EXCEPT !.op = "Update"]]
    /\ Goto(p, "upd_lock")
    /\ UNCHANGED <<lbVars, mux, hist>>

WRRcUpdLock(p) ==
    /\ kind = "WeightRoundRobin" /\ pc[p] = "upd_lock"
    /\ Lock(p)
    /\ Goto(p, "upd_conf")
    /\ UNCHANGED <<lbVars, loc, hist>>

\* the type switch on r.conf
WRRcUpdConf(p) ==
    /\ kind = "WeightRoundRobin" /\ pc[p] = "upd_conf"
    /\ Goto(p, IF wrr.conf \in ConfTypes THEN "upd_clear" ELSE "upd_unlock")
    /\ UNCHANGED <<lbVars, loc, mux, hist>>

\* r.rss = r.rss[:0]; the loop then ranges over conf.GetConf()
WRRcUpdClear(p) ==
    /\ kind = "WeightRoundRobin" /\ pc[p] = "upd_clear"
    /\ wrr' = [wrr EXCEPT !.rss = <<>>]
    /\ log' = <<>>
    /\ fresh' = TRUE
    /\ loc' = [loc EXCEPT ![p].list = confList]
    /\ Goto(p, "upd_add")
    /\ UNCHANGED <<kind, zk, sess, req, rr, ch, hashFn, confList, last, added, mux, hist>>

\* one iteration of the loop: addInternal for an entry with >= 2 fields
WRRcUpdAdd(p) ==
    /\ kind = "WeightRoundRobin" /\ pc[p] = "upd_add"
    /\ IF loc[p].list = <<>>
       THEN /\ Goto(p, "upd_unlock")
            /\ UNCHANGED <<wrr, loc>>
       ELSE /\ wrr' = WRRAddAll(wrr, <<Head(loc[p].list)>>)
            /\ loc' = [loc EXCEPT ![p].list = Tail(@)]
            /\ UNCHANGED pc
    /\ UNCHANGED <<kind, zk, sess, req, rr, ch, hashFn, confList, last, log, added, fresh, mux, hist>>

WRRcUpdUnlock(p) ==
    /\ kind = "WeightRoundRobin" /\ pc[p] = "upd_unlock"
    /\ Unlock(p)
    /\ hist' = [hist EXCEPT !.pool = PoolNow]
    /\ Return(p)
    /\ UNCHANGED lbVars

NextWRRc ==
    \E p \in Procs :
        \/ WRRcStartGet(p) \/ WRRcNextLock(p) \/ WRRcNextLen(p) \/ WRRcNextLoop(p)
        \/ WRRcNextSettle(p) \/ WRRcNextUnlock(p)
        \/ WRRcStartAdd(p) \/ WRRcAddLock(p) \/ WRRcAddAppend(p) \/ WRRcAddUnlock(p)
        \/ WRRcStartSetConf(p) \/ WRRcSetConfLock(p) \/ WRRcSetConfStore(p)
        \/ WRRcSetConfUnlock(p)
        \/ WRRcStartUpdate(p) \/ WRRcUpdLock(p) \/ WRRcUpdConf(p) \/ WRRcUpdClear(p)
        \/ WRRcUpdAdd(p) \/ WRRcUpdUnlock(p)

(***************************************************************************)
(* ConsistentHashBanlance, step by step                                    *)
(***************************************************************************)
ConcKeys == {<<0, "key">>, <<MaxHash, "key">>}

CHcStartGet(p) ==
    /\ kind = "ConsistentHash" /\ pc[p] = "idle"
    /\ \E key \in ConcKeys :
        loc' = [loc EXCEPT ![p] = [LocInit EXCEPT !.op = "Get", !.key = key]]
    /\ Goto(p, "get_empty")
    /\ UNCHANGED <<lbVars, mux, hist>>

\* if c.IsEmpty() { return "", errors.New(...) }; hash := c.hash([]byte(key))
\* IsEmpty reads len(c.keys); no lock is held yet
CHcGetEmpty(p) ==
    /\ kind = "ConsistentHash" /\ pc[p] = "get_empty"
    /\ IF IsEmpty(ch)
       THEN Return(p)
       ELSE /\ loc' = [loc EXCEPT ![p].hash = Hash(loc[p].key)]
            /\ Goto(p, "get_rlock")
    /\ UNCHANGED <<lbVars, mux, hist>>

\* c.mux.RLock()
CHcGetRLock(p) ==
    /\ kind = "ConsistentHash" /\ pc[p] = "get_rlock"
    /\ RLock(p)
    /\ Goto(p, "get_search")
    /\ UNCHANGED <<lbVars, loc, hist>>

\* idx := sort.Search(...); if idx == len(c.keys) { idx = 0 }
CHcGetSearch(p) ==
    /\ kind = "ConsistentHash" /\ pc[p] = "get_search"
    /\ loc' = [loc EXCEPT ![p].idx = CHIndex(ch.keys, loc[p].hash)]
    /\ Goto(p, "get_read")
    /\ UNCHANGED <<lbVars, mux, hist>>

\* return c.hashMap[c.keys[idx]], nil: an index outside the slice panics
CHcGetRead(p) ==
    /\ kind = "ConsistentHash" /\ pc[p] = "get_read"
    /\ loc' = IF loc[p].idx < Len(ch.keys)
              THEN [loc EXCEPT ![p].ret = ch.hashMap[ch.keys[loc[p].idx + 1]]]
              ELSE [loc EXCEPT ![p].err = "panic"]
    /\ Goto(p, "get_runlock")
    /\ UNCHANGED <<lbVars, mux, hist>>

\* defer c.mux.RUnlock()
CHcGetRUnlock(p) ==
    /\ kind = "ConsistentHash" /\ pc[p] = "get_runlock"
    /\ RUnlock(p)
    /\ Return(p)
    /\ UNCHANGED <<lbVars, hist>>

\* Add(params...): without parameters it returns nil before the lock
CHcStartAdd(p) ==
    /\ kind = "ConsistentHash" /\ pc[p] = "idle"
    /\ Len(added) < MaxPool - 1
    /\ \E params \in CHAddInputs :
        IF Len(params) = 0
        THEN UNCHANGED vars
        ELSE /\ loc' = [loc EXCEPT ![p] = [LocInit EXCEPT !.op = "Add", !.params = params]]
             /\ Goto(p, "add_lock")
             /\ UNCHANGED <<lbVars, mux, hist>>

\* c.mux.Lock() in Add, also when Update is the caller of Add
CHcAddLock(p) ==
    /\ kind = "ConsistentHash" /\ pc[p] = "add_lock"
    /\ Lock(p)
    /\ added' = Append(added, loc[p].params[1])
    /\ loc' = [loc EXCEPT ![p].i = 0]
    /\ Goto(p, "add_loop")
    /\ UNCHANGED <<kind, zk, sess, req, rr, wrr, ch, hashFn, confList, last, log, fresh, hist>>

\* one iteration of for i := 0; i < c.replicas; i++
CHcAddLoop(p) ==
    /\ kind = "ConsistentHash" /\ pc[p] = "add_loop"
    /\ IF loc[p].i >= ch.replicas
       THEN /\ Goto(p, "add_sort")
            /\ UNCHANGED <<ch, loc>>
       ELSE LET hash == Hash(VNode(loc[p].i, loc[p].params[1]))
            IN /\ ch' = [ch EXCEPT !.keys = Append(ch.keys, hash),
                                   !.hashMap[hash] = loc[p].params[1]]
               /\ loc' = [loc EXCEPT ![p].i = @ + 1]
               /\ UNCHANGED pc
    /\ UNCHANGED <<kind, zk, sess, req, rr, wrr, hashFn, confList, last, log, added, fresh, mux, hist>>

\* sort.Sort(c.keys)
CHcAddSort(p) ==
    /\ kind = "ConsistentHash" /\ pc[p] = "add_sort"
    /\ ch' = [ch EXCEPT !.keys = SortKeys(ch.keys)]
    /\ Goto(p, "add_unlock")
    /\ UNCHANGED <<kind, zk, sess, req, rr, wrr, hashFn, confList, last, log, added, fresh, loc, mux, hist>>

\* defer c.mux.Unlock(); Add returns to its caller
CHcAddUnlock(p) ==
    /\ kind = "ConsistentHash" /\ pc[p] = "add_unlock"
    /\ Unlock(p)
    /\ IF loc[p].op = "Update"
       THEN Goto(p, "upd_range") /\ UNCHANGED loc
       ELSE Return(p)
    /\ UNCHANGED <<lbVars, hist>>

\* c.conf = conf, without the lock
CHcStartSetConf(p) ==
    /\ kind = "ConsistentHash" /\ pc[p] = "idle"
    /\ \E conf \in ConfTypes \ {ch.conf} :
        loc' = [loc EXCEPT ![p] = [LocInit EXCEPT !.op = "SetConf", !.conf = conf]]
    /\ Goto(p, "setconf_store")
    /\ UNCHANGED <<lbVars, mux, hist>>

CHcSetConfStore(p) ==
    /\ kind = "ConsistentHash" /\ pc[p] = "setconf_store"
    /\ ch' = CHSetConf(ch, loc[p].conf)
    /\ Return(p)
    /\ UNCHANGED <<kind, zk, sess, req, rr, wrr, hashFn, confList, last, log, added, fresh, mux, hist>>

\* Update(): loc.i is the if-block (1: LoadBalanceZkConf, 2: LoadBalanceCheckConf)
CHcStartUpdate(p) ==
    /\ kind = "ConsistentHash" /\ pc[p] = "idle"
    /\ loc' = [loc EXCEPT ![p] = [LocInit EXCEPT !.op = "Update", !.i = 1]]
    /\ Goto(p, "upd_conf")
    /\ UNCHANGED <<lbVars, mux, hist>>

CHBlockConf(i) == IF i = 1 THEN "LoadBalanceZkConf" ELSE "LoadBalanceCheckConf"

\* if conf, ok := c.conf.(*LoadBalance..Conf); ok: c.conf is read without the lock
CHcUpdConf(p) ==
    /\ kind = "ConsistentHash" /\ pc[p] = "upd_conf"
    /\ IF ch.conf = CHBlockConf(loc[p].i)
       THEN Goto(p, "upd_lock") /\ UNCHANGED loc
       ELSE IF loc[p].i = 1
            THEN loc' = [loc EXCEPT ![p].i = 2] /\ UNCHANGED pc
            ELSE Goto(p, "upd_unlock") /\ UNCHANGED loc
    /\ UNCHANGED <<lbVars, mux, hist>>

\* c.mux.Lock(); defer c.mux.Unlock()
CHcUpdLock(p) ==
    /\ kind = "ConsistentHash" /\ pc[p] = "upd_lock"
    /\ Lock(p)
    /\ loc' = [loc EXCEPT ![p].held = @ + 1]
    /\ Goto(p, "upd_clear")
    /\ UNCHANGED <<lbVars, hist>>

\* c.keys = c.keys[:0]; c.hashMap = make(...); the loop then ranges over GetConf()
CHcUpdClear(p) ==
    /\ kind = "ConsistentHash" /\ pc[p] = "upd_clear"
    /\ ch' = CHClear(ch)
    /\ added' = <<>>
    /\ loc' = [loc EXCEPT ![p].list = confList]
    /\ Goto(p, "upd_range")
    /\ UNCHANGED <<kind, zk, sess, req, rr, wrr, hashFn, confList, last, log, fresh, mux, hist>>

\* for _, ip := range conf.GetConf() { c.Add(strings.Split(ip, ",")...) }
CHcUpdRange(p) ==
    /\ kind = "ConsistentHash" /\ pc[p] = "upd_range"
    /\ IF loc[p].list = <<>>
       THEN IF loc[p].i = 1
            THEN /\ loc' = [loc EXCEPT ![p].i = 2]
                 /\ Goto(p, "upd_conf")
            ELSE /\ Goto(p, "upd_unlock")
                 /\ UNCHANGED loc
       ELSE /\ loc' = [loc EXCEPT ![p].params = Split(Head(loc[p].list)),
                                  ![p].list = Tail(@)]
            /\ Goto(p, "add_lock")
    /\ UNCHANGED <<lbVars, mux, hist>>

\* the deferred Unlock of every block entered; Update returns
CHcUpdUnlock(p) ==
    /\ kind = "ConsistentHash" /\ pc[p] = "upd_unlock"
    /\ IF loc[p].held > 0 THEN Unlock(p) ELSE UNCHANGED mux
    /\ Return(p)
    /\ UNCHANGED <<lbVars, hist>>

NextCHc ==
    \E p \in Procs :
        \/ CHcStartGet(p) \/ CHcGetEmpty(p) \/ CHcGetRLock(p) \/ CHcGetSearch(p)
        \/ CHcGetRead(p) \/ CHcGetRUnlock(p)
        \/ CHcStartAdd(p) \/ CHcAddLock(p) \/ CHcAddLoop(p) \/ CHcAddSort(p)
        \/ CHcAddUnlock(p)
        \/ CHcStartSetConf(p) \/ CHcSetConfStore(p)
        \/ CHcStartUpdate(p) \/ CHcUpdConf(p) \/ CHcUpdLock(p) \/ CHcUpdClear(p)
        \/ CHcUpdRange(p) \/ CHcUpdUnlock(p)

NextConc == NextRRc \/ NextWRRc \/ NextCHc \/ ConfChange

SpecConc == InitConc /\ [][NextConc]_vars

(***************************************************************************)
(* SpecWatch: ZkManager.WatchServerListByPath / WatchPathData.  The caller *)
(* subscribes, a goroutine runs the watch loop, the registry changes and   *)
(* breaks, a consumer receives from the two channels.  The two ZkManager   *)
(* types of the repository are the two values of kind:                     *)
(*   "ZkManager"      zookeeper/zk.go, connection guarded by a mutex       *)
(*   "ZkManagerPool"  the variant with the connection pool                 *)
(***************************************************************************)
SnapCap == 10   \* make(chan []string, 10)
ErrCap == 10    \* make(chan error, 10)

WatchKinds == {"ZkManager", "ZkManagerPool"}

\* the children list / node data of the watched path: two versions
ZkData == {1, 2}

nonZk == <<sess, req, rr, wrr, ch, hashFn, confList, last, log, added, fresh, concVars>>

InitWatch ==
    /\ kind \in WatchKinds
    /\ zk = ZkIdle
    /\ sess = SessIdle
    /\ req = ReqIdle
    /\ rr = RRInit
    /\ wrr = WRRInit
    /\ ch = CHInit(0)
    /\ hashFn = <<>>
    /\ confList = <<>>
    /\ last = Call("New", <<>>, "", "nil", <<>>)
    /\ log = <<>>
    /\ added = <<>>
    /\ fresh = TRUE
    /\ mux = NoLock
    /\ ConcIdle

\* no watch loop goroutine exists
NoLoop(z) == z.wpc \in {"none", "nowatch", "done"}

\* a watch loop goroutine is running
LoopRunning(z) == z.wpc \in {"check", "watch", "send", "wait", "close"}

\* the process has not been brought down by a panic of the loop goroutine
Alive(z) == z.wpc # "panic"

\* GetConnect(): zk.Connect succeeds or fails; on failure conn is left alone
ZkGetConnect ==
    /\ kind \in WatchKinds
    /\ ~zk.conn /\ Alive(zk)
    /\ \E ok \in BOOLEAN : zk' = [zk EXCEPT !.conn = ok]
    /\ UNCHANGED <<kind, nonZk>>

\* the watch set by ChildrenW/GetW has not fired yet
WatchArmed(z) == z.wpc \in {"send", "wait"} /\ z.evt = "none"

\* z.conn.Close(): the handle is closed under a loop that may be using it; a
\* watch that is armed on it fires with an error
HandleClosed(z) ==
    [z EXCEPT !.conn = FALSE,
              !.lconn = IF LoopRunning(z) THEN "closed" ELSE @,
              !.evt = IF WatchArmed(z) THEN "err" ELSE @]

\* Close() when z.conn != nil.  zk.go: z.conn.Close(); z.conn = nil;
\* z.connected = false.  Pool variant: a handle with a session goes back to
\* zkPool and stays open, any other handle is closed; z.conn = nil.
\* Nothing in Close() looks at the watch loops.
ZkCloseConn(z, healthy) ==
    IF kind = "ZkManagerPool" /\ healthy
    THEN [z EXCEPT !.conn = FALSE]
    ELSE HandleClosed(z)

ZkClose ==
    /\ kind \in WatchKinds
    /\ zk.conn /\ Alive(zk)
    /\ \E healthy \in BOOLEAN : zk' = ZkCloseConn(zk, healthy)
    /\ UNCHANGED <<kind, nonZk>>

\* the two channels a running loop sends on, and the loop at its first step
StartLoop(z, first) ==
    [z EXCEPT !.wpc = first, !.lconn = "open", !.snapshot = 0,
              !.evt = "none",
              !.snaps = <<>>, !.snapCap = SnapCap, !.snapClosed = FALSE,
              !.errs = <<>>, !.errCap = ErrCap, !.errClosed = FALSE,
              !.errSent = 0, !.errSeen = FALSE]

\* zk.go: ensureConnection() failed: a channel of capacity 1 holding the
\* error and an unbuffered snapshot channel are returned, no goroutine starts
NoConnection(z) ==
    [z EXCEPT !.wpc = "nowatch", !.lconn = "none", !.snapshot = 0,
              !.evt = "none",
              !.snaps = <<>>, !.snapCap = 0, !.snapClosed = FALSE,
              !.errs = <<"connect">>, !.errCap = 1, !.errClosed = FALSE,
              !.errSent = 0, !.errSeen = FALSE]

\* WatchServerListByPath(path) / WatchPathData(nodePath) of zk.go: the two
\* functions differ only in the watch call (ChildrenW / GetW)
ZkSubscribe ==
    /\ kind = "ZkManager"
    /\ NoLoop(zk)
    /\ \E ok \in BOOLEAN :
        zk' = IF zk.conn \/ ok
              THEN StartLoop([zk EXCEPT !.conn = TRUE], "watch")
              ELSE NoConnection(zk)
    /\ UNCHANGED <<kind, nonZk>>

\* WatchServerListByPath(path) / WatchPathData(nodePath) of the pool variant:
\* the goroutine is started whatever z.conn is
ZkSubscribePool ==
    /\ kind = "ZkManagerPool"
    /\ NoLoop(zk)
    /\ zk' = StartLoop(zk, "check")
    /\ UNCHANGED <<kind, nonZk>>

\* (mutant) after an error the loop sends it and goes on watching
WatchFailRetry(z, err) ==
    [z EXCEPT !.errs = IF Len(@) < z.errCap THEN Append(@, err) ELSE @,
              !.errSent = IF Len(z.errs) < z.errCap THEN @ + 1 ELSE @,
              !.errSeen = TRUE,
              !.wpc = "watch"]

\* select { case errors <- err: default: }; return   (zk.go)
\* errors <- err; return                              (pool variant)
WatchFail(z, err) ==
    [z EXCEPT !.errs = IF Len(@) < z.errCap THEN Append(@, err) ELSE @,
              !.errSent = IF Len(z.errs) < z.errCap THEN @ + 1 ELSE @,
              !.errSeen = TRUE,
              !.wpc = "close"]

\* the send of the error can be made now: zk.go never blocks on it, the pool
\* variant waits for room in the buffer
ErrSendReady(z) == kind = "ZkManager" \/ Len(z.errs) < z.errCap

\* pool variant: if z.conn == nil { errors <- ...; return }
ZkCheckConn ==
    /\ kind = "ZkManagerPool"
    /\ zk.wpc = "check"
    /\ zk.conn \/ ErrSendReady(zk)
    /\ zk' = IF zk.conn THEN [zk EXCEPT !.wpc = "watch"] ELSE WatchFail(zk, "noconn")
    /\ UNCHANGED <<kind, nonZk>>

\* the outcomes of the watch call: on a closed handle it fails
WatchCallOutcomes(z) ==
    IF kind = "ZkManager" /\ z.lconn = "closed" THEN {FALSE} ELSE BOOLEAN

\* snapshot, _, events, err := conn.ChildrenW(path) / conn.GetW(nodePath).
\* zk.go calls it on the handle it copied when the loop started; the pool
\* variant calls it on z.conn, which Close() may have set to nil since the
\* check at the top of the loop: a nil pointer dereference, the process dies
ZkWatchCall ==
    /\ kind \in WatchKinds
    /\ zk.wpc = "watch"
    /\ IF kind = "ZkManagerPool" /\ ~zk.conn
       THEN zk' = [zk EXCEPT !.wpc = "panic"]
       ELSE \E ok \in WatchCallOutcomes(zk) :
               /\ ok \/ ErrSendReady(zk)
               /\ zk' = IF ok
                        THEN [zk EXCEPT !.snapshot = zk.data, !.evt = "none",
                                        !.wpc = "send"]
                        ELSE WatchFail(zk, "watch")
    /\ UNCHANGED <<kind, nonZk>>

\* (mutant) the send waits until the buffer has room
SnapSendReadyBlocking(z) == Len(z.snaps) < z.snapCap

\* the select around snapshots <- snapshot has a default case (zk.go) or a
\* 5 second timeout (pool variant): it can always be left
SnapSendReady(z) == TRUE

\* select { case snapshots <- snapshot: default / <-time.After(5s): }
SnapSend(z) ==
    [z EXCEPT !.snaps = IF Len(@) < z.snapCap THEN Append(@, z.snapshot) ELSE @,
              !.wpc = "wait"]

ZkSendSnapshot ==
    /\ kind \in WatchKinds
    /\ zk.wpc = "send"
    /\ SnapSendReady(zk)
    /\ zk' = SnapSend(zk)
    /\ UNCHANGED <<kind, nonZk>>

\* where the loop goes on after the select on events
LoopTop == IF kind = "ZkManagerPool" THEN "check" ELSE "watch"

\* case evt := <-events: an event with Err ends the loop
ZkWatchEvent ==
    /\ kind \in WatchKinds
    /\ zk.wpc = "wait"
    /\ zk.evt # "none"
    /\ zk.evt = "change" \/ ErrSendReady(zk)
    /\ zk' = IF zk.evt = "err"
             THEN WatchFail([zk EXCEPT !.evt = "none"], "event")
             ELSE [zk EXCEPT !.evt = "none", !.wpc = LoopTop]
    /\ UNCHANGED <<kind, nonZk>>

\* pool variant: case <-time.After(30 * time.Second)
ZkWaitTimeout ==
    /\ kind = "ZkManagerPool"
    /\ zk.wpc = "wait"
    /\ zk' = [zk EXCEPT !.wpc = LoopTop]
    /\ UNCHANGED <<kind, nonZk>>

\* the deferred close(snapshots); close(errors)
ZkCloseChannels ==
    /\ kind \in WatchKinds
    /\ zk.wpc = "close"
    /\ zk' = [zk EXCEPT !.snapClosed = TRUE, !.errClosed = TRUE, !.wpc = "done",
                        !.lconn = "none"]
    /\ UNCHANGED <<kind, nonZk>>

\* the registry: the watched path changes, which fires the watch
ZkRegistryChange ==
    /\ kind \in WatchKinds
    /\ \E d \in ZkData \ {zk.data} :
        zk' = [zk EXCEPT !.data = d,
                         !.evt = IF WatchArmed(zk) THEN "change" ELSE @]
    /\ UNCHANGED <<kind, nonZk>>

\* the registry: the session breaks, the watch fires with an error
ZkSessionError ==
    /\ kind \in WatchKinds
    /\ WatchArmed(zk)
    /\ zk' = [zk EXCEPT !.evt = "err"]
    /\ UNCHANGED <<kind, nonZk>>

\* the consumer: <-snapshots, <-errors
ZkRecvSnapshot ==
    /\ kind \in WatchKinds
    /\ Len(zk.snaps) > 0 /\ Alive(zk)
    /\ zk' = [zk EXCEPT !.snaps = Tail(@)]
    /\ UNCHANGED <<kind, nonZk>>

ZkRecvError ==
    /\ kind \in WatchKinds
    /\ Len(zk.errs) > 0 /\ Alive(zk)
    /\ zk' = [zk EXCEPT !.errs = Tail(@)]
    /\ UNCHANGED <<kind, nonZk>>

\* the steps of the watch loop goroutine
LoopStep ==
    \/ ZkCheckConn \/ ZkWatchCall \/ ZkSendSnapshot \/ ZkWatchEvent
    \/ ZkWaitTimeout \/ ZkCloseChannels

NextWatch ==
    \/ ZkGetConnect \/ ZkClose \/ ZkSubscribe \/ ZkSubscribePool
    \/ LoopStep
    \/ ZkRegistryChange \/ ZkSessionError \/ ZkRecvSnapshot \/ ZkRecvError

SpecWatch == InitWatch /\ [][NextWatch]_vars

\* the goroutine of the loop keeps running while it has a step to take;
\* nothing obliges the registry to change or the consumer to receive
SpecWatchFair == SpecWatch /\ WF_vars(LoopStep)

\* the consumer: snapshot := <-snapshots, remembered in last
ZkConsume ==
    /\ kind \in WatchKinds
    /\ Len(zk.snaps) > 0 /\ Alive(zk)
    /\ zk' = [zk EXCEPT !.snaps = Tail(@)]
    /\ last' = Call("Recv", <<>>, Head(zk.snaps), "nil", <<>>)
    /\ UNCHANGED <<kind, sess, req, rr, wrr, ch, hashFn, confList, log, added, fresh, concVars>>

\* SpecConverge: the watch loop, the registry and a consumer that keeps
\* receiving from the snapshot channel; nobody calls Close() and the session
\* does not break
NextConverge ==
    \/ ZkGetConnect \/ ZkSubscribe \/ ZkSubscribePool
    \/ LoopStep
    \/ ZkRegistryChange \/ ZkConsume

SpecConverge ==
    /\ InitWatch /\ [][NextConverge]_vars
    /\ WF_vars(LoopStep) /\ WF_vars(ZkConsume)

(***************************************************************************)
(* SpecSession: the ZkManager as a client of the registry.  Goroutines     *)
(* call GetConnect, Close, GetPathData, SetPathData and RegistServerPath   *)
(* on one ZkManager; the registry expires sessions and another writer      *)
(* updates the data node.  z.mutex of zk.go is mux; the pool variant has   *)
(* no mutex.  An operation is split where it takes a lock it may have to   *)
(* wait for and between the registry calls of SetPathData.                 *)
(***************************************************************************)
Configs == {1}          \* the payload a caller writes; 2 is the other writer's

VersionArgs == {0, 1}   \* the version argument of SetPathData

SessLocInit ==
    [op |-> "", cfg |-> 0, ver |-> 0, dver |-> 0, err |-> "nil",
     nested |-> FALSE, path |-> ""]

nonSess == <<zk, req, rr, wrr, ch, hashFn, confList, last, log, added, fresh, hist>>

InitSession ==
    /\ kind \in WatchKinds
    /\ zk = ZkIdle
    /\ sess = SessIdle
    /\ req = ReqIdle
    /\ rr = RRInit
    /\ wrr = WRRInit
    /\ ch = CHInit(0)
    /\ hashFn = <<>>
    /\ confList = <<>>
    /\ last = Call("New", <<>>, "", "nil", <<>>)
    /\ log = <<>>
    /\ added = <<>>
    /\ fresh = TRUE
    /\ mux = NoLock
    /\ pc = [p \in Procs |-> "idle"]
    /\ loc = [p \in Procs |-> SessLocInit]
    /\ hist = <<>>

\* conn.State() == zk.StateHasSession
HasSession(s, h) == h # 0 /\ s.hs[h] = "session"

\* zk.Connect can return one more handle
CanConnect(s) == \E h \in Handles : s.hs[h] = "unused"

ConnectOutcomes(s) == IF CanConnect(s) THEN BOOLEAN ELSE {FALSE}

NewHandle(s) == Min({h \in Handles : s.hs[h] = "unused"})

\* z.conn = conn (zk.go also: z.connected = true)
Connected(s, h) ==
    [s EXCEPT !.hs[h] = "session", !.conn = h,
              !.connected = IF kind = "ZkManager" THEN TRUE ELSE @]

\* what zkPool.Get() can return: a handle that was put, or nil
PoolGets(s) == IF kind = "ZkManagerPool" THEN s.pool \cup {0} ELSE {0}

\* GetConnect returns without calling zk.Connect.  zk.go: the client is
\* connected.  Pool variant: zkPool.Get() returned a handle with a session;
\* whether the client already holds a handle is not looked at.
GetConnectReuses(s, got) ==
    IF kind = "ZkManager" THEN s.connected /\ s.conn # 0
    ELSE HasSession(s, got)

\* GetConnect(): the ZkManager afterwards; got is what zkPool.Get() returned,
\* ok whether zk.Connect succeeded
GetConnect(s, got, ok) ==
    LET t == [s EXCEPT !.pool = @ \ {got}]
    IN IF GetConnectReuses(s, got)
       THEN (IF kind = "ZkManager" THEN s ELSE [t EXCEPT !.conn = got])
       ELSE IF ok THEN Connected(t, NewHandle(s)) ELSE t

GetConnectErr(s, got, ok) ==
    IF GetConnectReuses(s, got) \/ ok THEN "nil" ELSE "connect"

\* conn.Close(): the session of the handle ends and its ephemeral node goes
EndSession(s, h) ==
    [s EXCEPT !.hs[h] = "closed", !.child = IF @ = h THEN 0 ELSE @]

\* (mutant) Close() forgets to clear z.connected
CloseKeepsConnected(s) ==
    IF s.conn = 0 THEN s
    ELSE IF kind = "ZkManagerPool" /\ HasSession(s, s.conn)
         THEN [s EXCEPT !.pool = @ \cup {s.conn}, !.conn = 0]
         ELSE [EndSession(s, s.conn) EXCEPT !.conn = 0]

\* Close().  zk.go: z.conn.Close(); z.conn = nil; z.connected = false.
\* Pool variant: a handle with a session is put into zkPool, any other is
\* closed; z.conn = nil.
Close(s) ==
    IF s.conn = 0 THEN s
    ELSE IF kind = "ZkManagerPool" /\ HasSession(s, s.conn)
         THEN [s EXCEPT !.pool = @ \cup {s.conn}, !.conn = 0]
         ELSE [EndSession(s, s.conn) EXCEPT !.conn = 0, !.connected = FALSE]

\* (mutant) the nodes are created without asking whether they exist
RegistServerPathErrCreate(s) ==
    IF ~HasSession(s, s.conn) THEN "exists"
    ELSE IF s.group \/ s.child # 0 THEN "create" ELSE "nil"

\* RegistServerPath(nodePath, host) on a non-nil handle: Exists and Create
\* fail on a handle without a session; with a session a node is created only
\* when Exists said it is absent
RegistServerPathErr(s) ==
    IF ~HasSession(s, s.conn) THEN "exists" ELSE "nil"

RegistServerPath(s) ==
    IF ~HasSession(s, s.conn) THEN s
    ELSE [s EXCEPT !.group = TRUE, !.child = IF @ = 0 THEN s.conn ELSE @]

\* ex, _, _ := z.conn.Exists(nodePath): the error is dropped
SetExists(s) == HasSession(s, s.conn) /\ s.node.ex

\* z.conn.Create(nodePath, config, 0, acl)
CreateErr(s) ==
    IF ~HasSession(s, s.conn) THEN "noserver"
    ELSE IF s.node.ex THEN "nodeexists" ELSE "nil"

Create(s, config) ==
    IF CreateErr(s) = "nil"
    THEN [s EXCEPT !.node = [ex |-> TRUE, data |-> config, ver |-> 0]]
    ELSE s

\* z.conn.Get(nodePath)
GetErr(s) ==
    IF ~HasSession(s, s.conn) THEN "noserver"
    ELSE IF ~s.node.ex THEN "nonode" ELSE "nil"

\* z.conn.Set(nodePath, config, version): the registry compares version with
\* the version of the node
SetErr(s, version) ==
    IF ~HasSession(s, s.conn) THEN "noserver"
    ELSE IF ~s.node.ex THEN "nonode"
    ELSE IF version # s.node.ver THEN "badversion" ELSE "nil"

Set(s, config, version) ==
    IF SetErr(s, version) = "nil"
    THEN [s EXCEPT !.node.data = config, !.node.ver = @ + 1]
    ELSE s

\* a nil pointer dereference in one goroutine has ended the process
Crashed == \E p \in Procs : pc[p] = "panic"

SessOps == {"GetConnect", "Close", "GetPathData", "SetPathData", "RegistServerPath"}

\* goroutine 1 calls every operation; the goroutines beside it connect and
\* close
OpsOf(p) == IF p = 1 THEN SessOps ELSE {"GetConnect", "Close"}

\* the SetPathData calls that have not returned
SetsInFlight == Cardinality({p \in Procs : loc[p].op = "SetPathData"})

\* one more write keeps the version counter within MaxVersion
VersionRoom == sess.node.ver + SetsInFlight < MaxVersion

\* where an operation starts: zk.go begins every registry operation with
\* ensureConnection(), the pool variant with its test of z.conn
FirstStep(op) ==
    CASE op = "GetConnect" -> "connect"
      [] op = "Close" -> "close"
      [] OTHER -> IF kind = "ZkManager" THEN "ensure" ELSE "body"

\* a goroutine calls an operation of the ZkManager
SessCall(p) ==
    /\ kind \in WatchKinds
    /\ pc[p] = "idle" /\ ~Crashed
    /\ \E op \in OpsOf(p), cfg \in Configs, ver \in VersionArgs :
          /\ op = "SetPathData" => VersionRoom
          /\ op # "SetPathData" => ver = 0
          /\ loc' = [loc EXCEPT ![p] = [SessLocInit EXCEPT !.op = op, !.cfg = cfg,
                                                           !.ver = ver]]
          /\ pc' = [pc EXCEPT ![p] = FirstStep(op)]
    /\ UNCHANGED <<kind, sess, mux, nonSess>>

\* the operation returns err; the deferred Unlock releases z.mutex
Finish(p, l, err) ==
    /\ pc' = [pc EXCEPT ![p] = "done"]
    /\ loc' = [loc EXCEPT ![p] = [l EXCEPT !.err = err]]
    /\ mux' = IF mux.writer = p THEN [mux EXCEPT !.writer = 0] ELSE mux

\* a method is called on z.conn == nil
Panic(p) ==
    /\ pc' = [pc EXCEPT ![p] = "panic"]
    /\ UNCHANGED <<sess, loc, mux>>

\* where the operation goes on after ensureConnection() returned nil
AfterEnsure(l) == IF l.nested THEN "set_get" ELSE "body"

\* ensureConnection() of zk.go: RLock; z.connected && z.conn != nil; RUnlock
SessEnsure(p) ==
    /\ kind = "ZkManager"
    /\ pc[p] = "ensure" /\ ~Crashed
    /\ CanRLock(p)
    /\ pc' = [pc EXCEPT ![p] = IF sess.connected /\ sess.conn # 0
                               THEN AfterEnsure(loc[p]) ELSE "connect"]
    /\ UNCHANGED <<kind, sess, loc, mux, nonSess>>

\* GetConnect(), called by the goroutine itself or by ensureConnection()
SessGetConnect(p) ==
    /\ kind \in WatchKinds
    /\ pc[p] = "connect" /\ ~Crashed
    /\ kind = "ZkManager" => CanLock(p)
    /\ \E got \in PoolGets(sess), ok \in ConnectOutcomes(sess) :
          LET err == GetConnectErr(sess, got, ok)
          IN /\ sess' = GetConnect(sess, got, ok)
             /\ IF loc[p].op = "GetConnect" \/ err # "nil"
                THEN Finish(p, loc[p], err)
                ELSE /\ pc' = [pc EXCEPT ![p] = AfterEnsure(loc[p])]
                     /\ UNCHANGED <<loc, mux>>
    /\ UNCHANGED <<kind, nonSess>>

SessClose(p) ==
    /\ kind \in WatchKinds
    /\ pc[p] = "close" /\ ~Crashed
    /\ kind = "ZkManager" => CanLock(p)
    /\ sess' = Close(sess)
    /\ Finish(p, loc[p], "nil")
    /\ UNCHANGED <<kind, nonSess>>

\* the operation body finds z.conn == nil: the pool variant returns an
\* error, zk.go (where Close() ran after ensureConnection()) dereferences it
NoHandle(p) ==
    IF kind = "ZkManager" THEN Panic(p)
    ELSE Finish(p, loc[p], "noconn") /\ UNCHANGED sess

\* GetPathData(nodePath): z.conn.Get(nodePath)
SessGetPathData(p) ==
    /\ kind \in WatchKinds
    /\ pc[p] = "body" /\ loc[p].op = "GetPathData" /\ ~Crashed
    /\ kind = "ZkManager" => CanRLock(p)
    /\ IF sess.conn = 0 THEN NoHandle(p)
       ELSE /\ Finish(p, loc[p], GetErr(sess))
            /\ UNCHANGED sess
    /\ UNCHANGED <<kind, nonSess>>

\* RegistServerPath(nodePath, host) after its test of the connection
SessRegist(p) ==
    /\ kind \in WatchKinds
    /\ pc[p] = "body" /\ loc[p].op = "RegistServerPath" /\ ~Crashed
    /\ kind = "ZkManager" => CanLock(p)
    /\ IF sess.conn = 0 THEN NoHandle(p)
       ELSE /\ sess' = RegistServerPath(sess)
            /\ Finish(p, [loc[p] EXCEPT !.path = IF sess.group /\ sess.child # 0
                                                 THEN "present" ELSE "create"],
                      RegistServerPathErr(sess))
    /\ UNCHANGED <<kind, nonSess>>

\* SetPathData: (zk.go: Lock;) Exists; when the node is absent Create and
\* return: zk.go returns nil whatever Create said, the pool variant returns
\* the error of Create.  When the node exists z.GetPathData is called next,
\* in zk.go with z.mutex still held
SessSetExists(p) ==
    /\ kind \in WatchKinds
    /\ pc[p] = "body" /\ loc[p].op = "SetPathData" /\ ~Crashed
    /\ kind = "ZkManager" => CanLock(p)
    /\ IF sess.conn = 0 THEN NoHandle(p)
       ELSE IF ~SetExists(sess)
       THEN /\ sess' = Create(sess, loc[p].cfg)
            /\ Finish(p, [loc[p] EXCEPT !.path = "create"],
                      IF kind = "ZkManager" THEN "nil" ELSE CreateErr(sess))
       ELSE /\ pc' = [pc EXCEPT ![p] = IF kind = "ZkManager" THEN "ensure"
                                       ELSE "set_get"]
            /\ loc' = [loc EXCEPT ![p].nested = TRUE]
            /\ mux' = IF kind = "ZkManager" THEN [mux EXCEPT !.writer = p] ELSE mux
            /\ UNCHANGED sess
    /\ UNCHANGED <<kind, nonSess>>

\* _, dStat, err := z.GetPathData(nodePath) inside SetPathData
SessSetGet(p) ==
    /\ kind \in WatchKinds
    /\ pc[p] = "set_get" /\ ~Crashed
    /\ kind = "ZkManager" => CanRLock(p)
    /\ IF sess.conn = 0 THEN NoHandle(p)
       ELSE /\ IF GetErr(sess) # "nil"
               THEN Finish(p, loc[p], GetErr(sess))
               ELSE /\ pc' = [pc EXCEPT ![p] = "set_set"]
                    /\ loc' = [loc EXCEPT ![p].dver = sess.node.ver]
                    /\ UNCHANGED mux
            /\ UNCHANGED sess
    /\ UNCHANGED <<kind, nonSess>>

\* _, err = z.conn.Set(nodePath, config, dStat.Version)
SessSetSet(p) ==
    /\ kind \in WatchKinds
    /\ pc[p] = "set_set" /\ ~Crashed
    /\ IF sess.conn = 0 THEN Panic(p)
       ELSE /\ sess' = Set(sess, loc[p].cfg, loc[p].dver)
            /\ Finish(p, [loc[p] EXCEPT !.path = "update"],
                      SetErr(sess, loc[p].dver))
    /\ UNCHANGED <<kind, nonSess>>

\* the caller has the result
SessReturn(p) ==
    /\ kind \in WatchKinds
    /\ pc[p] = "done"
    /\ pc' = [pc EXCEPT ![p] = "idle"]
    /\ loc' = [loc EXCEPT ![p] = SessLocInit]
    /\ UNCHANGED <<kind, sess, mux, nonSess>>

\* the registry: the session of a handle expires, its ephemeral node goes,
\* the client library sends the notification.  The pool variant passed
\* eventCallback to zk.Connect: case zk.StateExpired starts go z.reconnect().
\* zk.go registers no callback and drops the event channel zk.Connect
\* returns: nothing is started.
SessExpire ==
    /\ kind \in WatchKinds
    /\ \E h \in Handles :
          /\ sess.hs[h] = "session"
          /\ sess' = [sess EXCEPT
                 !.hs[h] = "expired",
                 !.child = IF @ = h THEN 0 ELSE @,
                 !.notif = IF ~Crashed THEN @ + 1 ELSE @,
                 !.pending = IF kind = "ZkManagerPool" /\ ~Crashed THEN @ + 1 ELSE @]
    /\ UNCHANGED <<kind, pc, loc, mux, nonSess>>

\* reconnect() has called GetConnect once and returns, whatever the outcome
AfterReconnect(s, err) ==
    [s EXCEPT !.attempts = @ + 1, !.pending = @ - 1]

\* reconnect(): time.Sleep(1 * time.Second); z.GetConnect(); log on failure
SessReconnect ==
    /\ kind = "ZkManagerPool"
    /\ sess.pending > 0 /\ ~Crashed
    /\ \E got \in PoolGets(sess), ok \in ConnectOutcomes(sess) :
          sess' = AfterReconnect(GetConnect(sess, got, ok),
                                 GetConnectErr(sess, got, ok))
    /\ UNCHANGED <<kind, pc, loc, mux, nonSess>>

\* the registry: another client writes the data node
RegWrite ==
    /\ kind \in WatchKinds
    /\ sess.node.ex /\ VersionRoom
    /\ sess' = [sess EXCEPT !.node.data = 2, !.node.ver = @ + 1]
    /\ UNCHANGED <<kind, pc, loc, mux, nonSess>>

\* the steps of goroutine p
SessStep(p) ==
    \/ SessCall(p) \/ SessEnsure(p) \/ SessGetConnect(p) \/ SessClose(p)
    \/ SessGetPathData(p) \/ SessRegist(p) \/ SessSetExists(p)
    \/ SessSetGet(p) \/ SessSetSet(p) \/ SessReturn(p)

NextSession ==
    \/ \E p \in Procs : SessStep(p)
    \/ SessExpire \/ SessReconnect \/ RegWrite

SpecSession == InitSession /\ [][NextSession]_vars

(***************************************************************************)
(* SpecRegist: several clients, each a process with its own ZkManager and  *)
(* its own session, register under the same group path with their own     *)
(* host names.  Client p is goroutine p; sess is the registry: the session *)
(* of every client, the durable group node and the clients whose ephemeral *)
(* child exists.  RegistServerPath is split at its four registry calls.    *)
(***************************************************************************)
RegistLocInit == [op |-> "", err |-> "nil"]

InitRegist ==
    /\ kind \in WatchKinds
    /\ zk = ZkIdle
    /\ sess = [hs |-> [p \in Procs |-> "session"], group |-> FALSE, children |-> {}]
    /\ req = ReqIdle
    /\ rr = RRInit
    /\ wrr = WRRInit
    /\ ch = CHInit(0)
    /\ hashFn = <<>>
    /\ confList = <<>>
    /\ last = Call("New", <<>>, "", "nil", <<>>)
    /\ log = <<>>
    /\ added = <<>>
    /\ fresh = TRUE
    /\ mux = NoLock
    /\ pc = [p \in Procs |-> "idle"]
    /\ loc = [p \in Procs |-> RegistLocInit]
    /\ hist = <<>>

\* the call returns err
RegistFinish(p, err) ==
    /\ pc' = [pc EXCEPT ![p] = "done"]
    /\ loc' = [loc EXCEPT ![p].err = err]

\* client p calls RegistServerPath(nodePath, host of p) on its connection
RegistCall(p) ==
    /\ pc[p] = "idle"
    /\ pc' = [pc EXCEPT ![p] = "exists_group"]
    /\ loc' = [loc EXCEPT ![p] = [RegistLocInit EXCEPT !.op = "RegistServerPath"]]
    /\ UNCHANGED <<kind, sess, mux, nonSess>>

\* ex, _, err := z.conn.Exists(nodePath)
RegistExistsGroup(p) ==
    /\ pc[p] = "exists_group"
    /\ IF sess.hs[p] # "session" THEN RegistFinish(p, "exists")
       ELSE /\ pc' = [pc EXCEPT ![p] = IF sess.group THEN "exists_child"
                                       ELSE "create_group"]
            /\ UNCHANGED loc
    /\ UNCHANGED <<kind, sess, mux, nonSess>>

\* if !ex { _, err = z.conn.Create(nodePath, nil, 0, acl) }: the registry
\* refuses to create a node that exists
RegistCreateGroup(p) ==
    /\ pc[p] = "create_group"
    /\ IF sess.hs[p] # "session" \/ sess.group
       THEN RegistFinish(p, "create") /\ UNCHANGED sess
       ELSE /\ sess' = [sess EXCEPT !.group = TRUE]
            /\ pc' = [pc EXCEPT ![p] = "exists_child"]
            /\ UNCHANGED loc
    /\ UNCHANGED <<kind, mux, nonSess>>

\* ex, _, err = z.conn.Exists(subNodePath)
RegistExistsChild(p) ==
    /\ pc[p] = "exists_child"
    /\ IF sess.hs[p] # "session" THEN RegistFinish(p, "exists")
       ELSE IF p \in sess.children THEN RegistFinish(p, "nil")
       ELSE pc' = [pc EXCEPT ![p] = "create_child"] /\ UNCHANGED loc
    /\ UNCHANGED <<kind, sess, mux, nonSess>>

\* if !ex { _, err = z.conn.Create(subNodePath, nil, zk.FlagEphemeral, acl) }
RegistCreateChild(p) ==
    /\ pc[p] = "create_child"
    /\ IF sess.hs[p] # "session" \/ p \in sess.children
       THEN RegistFinish(p, "create") /\ UNCHANGED sess
       ELSE /\ sess' = [sess EXCEPT !.children = @ \cup {p}]
            /\ RegistFinish(p, "nil")
    /\ UNCHANGED <<kind, mux, nonSess>>

\* the caller has the result
RegistReturn(p) ==
    /\ pc[p] = "done"
    /\ pc' = [pc EXCEPT ![p] = "idle"]
    /\ loc' = [loc EXCEPT ![p] = RegistLocInit]
    /\ UNCHANGED <<kind, sess, mux, nonSess>>

\* the registry: the session of client p expires, its ephemeral child goes
RegistExpire(p) ==
    /\ sess.hs[p] = "session"
    /\ sess' = [sess EXCEPT !.hs[p] = "expired", !.children = @ \ {p}]
    /\ UNCHANGED <<kind, pc, loc, mux, nonSess>>

NextRegist ==
    \E p \in Procs :
        \/ RegistCall(p) \/ RegistExistsGroup(p) \/ RegistCreateGroup(p)
        \/ RegistExistsChild(p) \/ RegistCreateChild(p) \/ RegistReturn(p)
        \/ RegistExpire(p)

SpecRegist == InitRegist /\ [][NextRegist]_vars

(***************************************************************************)
(* SpecPool: several ZkManagers of the variant with the package-level      *)
(* zkPool, each built by NewZkManager with its own hosts.  Manager m is    *)
(* process m.  sess holds the hosts and the conn of every manager (0 is    *)
(* nil), the state of every handle zk.Connect has returned, the host the   *)
(* handle is a session with, and the content of zkPool.                    *)
(***************************************************************************)
ZkHosts == {"zk1", "zk2"}

\* the hosts arguments of NewZkManager
HostLists == {{"zk1"}, {"zk2"}, {"zk1", "zk2"}}

InitPool ==
    /\ kind = "ZkManagerPool"
    /\ zk = ZkIdle
    /\ \E hosts \in [Procs -> HostLists] :
          sess = [hosts |-> hosts,
                  conn |-> [m \in Procs |-> 0],
                  hs |-> [h \in Handles |-> "unused"],
                  host |-> [h \in Handles |-> ""],
                  pool |-> {}]
    /\ req = ReqIdle
    /\ rr = RRInit
    /\ wrr = WRRInit
    /\ ch = CHInit(0)
    /\ hashFn = <<>>
    /\ confList = <<>>
    /\ last = Call("NewZkManager", <<>>, 0, "nil", <<>>)
    /\ log = <<>>
    /\ added = <<>>
    /\ fresh = TRUE
    /\ mux = NoLock
    /\ pc = [p \in Procs |-> "idle"]
    /\ loc = [p \in Procs |-> RegistLocInit]
    /\ hist = <<>>

nonPool == <<kind, zk, req, rr, wrr, ch, hashFn, confList, log, added, fresh, pc, loc, mux, hist>>

\* GetConnect of manager m, first branch: zkPool.Get() returned handle h and
\* h has a session: z.conn = conn
PoolAdopt(m) ==
    /\ \E h \in sess.pool :
          /\ sess.hs[h] = "session"
          /\ sess' = [sess EXCEPT !.pool = @ \ {h}, !.conn[m] = h]
          /\ last' = Call("GetConnect", <<m>>, h, "nil", <<>>)
    /\ UNCHANGED nonPool

\* GetConnect of manager m, second branch: zkPool.Get() returned nil or a
\* handle without a session (which is dropped); zk.Connect(z.hosts, ...)
\* returns a new handle, which is not connected yet
PoolConnect(m) ==
    /\ \E h \in Handles, got \in SUBSET sess.pool :
          /\ sess.hs[h] = "unused"
          /\ \/ got = {} /\ sess.pool = {}
             \/ \E g \in sess.pool : got = {g} /\ sess.hs[g] # "session"
          /\ sess' = [sess EXCEPT !.pool = @ \ got, !.conn[m] = h,
                                  !.hs[h] = "connecting"]
          /\ last' = Call("GetConnect", <<m>>, h, "nil", <<>>)
    /\ UNCHANGED nonPool

\* Close of manager m: a handle with a session goes to zkPool, any other one
\* is closed; z.conn = nil
PoolClose(m) ==
    /\ sess.conn[m] # 0
    /\ LET h == sess.conn[m] IN
          sess' = IF sess.hs[h] = "session"
                  THEN [sess EXCEPT !.pool = @ \cup {h}, !.conn[m] = 0]
                  ELSE [sess EXCEPT !.hs[h] = "closed", !.conn[m] = 0]
    /\ last' = Call("Close", <<m>>, 0, "nil", <<>>)
    /\ UNCHANGED nonPool

\* the client library: handle h gets its session with one of the hosts it
\* was given by the manager that holds it
PoolEstablish(h) ==
    /\ sess.hs[h] = "connecting"
    /\ \E m \in Procs, a \in ZkHosts :
          /\ sess.conn[m] = h
          /\ a \in sess.hosts[m]
          /\ sess' = [sess EXCEPT !.hs[h] = "session", !.host[h] = a]
    /\ UNCHANGED <<last, nonPool>>

\* the registry: the session of handle h expires
PoolExpire(h) ==
    /\ sess.hs[h] = "session"
    /\ sess' = [sess EXCEPT !.hs[h] = "expired"]
    /\ UNCHANGED <<last, nonPool>>

\* the runtime: a garbage collection empties the sync.Pool
PoolCollect ==
    /\ sess.pool # {}
    /\ sess' = [sess EXCEPT !.pool = {}]
    /\ UNCHANGED <<last, nonPool>>

NextPool ==
    \/ \E m \in Procs : PoolAdopt(m) \/ PoolConnect(m) \/ PoolClose(m)
    \/ \E h \in Handles : PoolEstablish(h) \/ PoolExpire(h)
    \/ PoolCollect

SpecPool == InitPool /\ [][NextPool]_vars

(***************************************************************************)
(* SpecDirector: the director of a reverse proxy asks the strategy for a   *)
(* backend (the Get actions above) and rewrites the request.  The two      *)
(* directors that call Get are the two values of req.dir:                  *)
(*   "main"   NewOptimizedReverseProxy (proxy/main.go)                     *)
(*   "multi"  NewMultipleHostsReverseProxy                                 *)
(* The director also joins the paths and the queries and sets headers;     *)
(* the model keeps the scheme and the host it routes to.                   *)
(***************************************************************************)
Directors == {"main", "multi"}

\* target = "http://127.0.0.1:2003/base" // fallback
Fallback == "http://127.0.0.1:2003/base"

\* the addresses that were added without a scheme, as "127.0.0.1:8000" in
\* round_robin_test.go; the others are absolute URLs
BareAddrs == {"c"}

\* url.Parse: "first path segment in URL cannot contain colon" for host:port
\* without a scheme; the empty string parses to the empty URL
URLParseErr(t) == IF t \in BareAddrs THEN "parse" ELSE "nil"

URLParse(t) ==
    IF t = "" THEN [Scheme |-> "", Host |-> ""]
    ELSE IF t = Fallback THEN [Scheme |-> "http", Host |-> "127.0.0.1:2003"]
    ELSE [Scheme |-> "http", Host |-> t]

\* an inbound request: its URL has neither scheme nor host
Inbound(dir) ==
    [dir |-> dir, phase |-> "none", ret |-> "", err |-> "nil",
     target |-> "unset", Scheme |-> "", Host |-> ""]

\* the string the director hands to url.Parse, "unset" when it has returned
\* before.  main.go: if err != nil || target == "" the fallback is taken.
\* NewMultipleHostsReverseProxy: if err != nil { log; return }
DirectorTarget(dir, ret, err) ==
    IF dir = "main"
    THEN (IF err # "nil" \/ ret = "" THEN Fallback ELSE ret)
    ELSE (IF err # "nil" THEN "unset" ELSE ret)

\* the request as the director leaves it
Director(r, ret, err) ==
    LET t == DirectorTarget(r.dir, ret, err)
    IN IF t = "unset" \/ URLParseErr(t) # "nil"
       THEN [r EXCEPT !.phase = "done", !.ret = ret, !.err = err,
                      !.target = "unset", !.Scheme = "", !.Host = ""]
       ELSE [r EXCEPT !.phase = "done", !.ret = ret, !.err = err,
                      !.target = t,
                      !.Scheme = URLParse(t).Scheme, !.Host = URLParse(t).Host]

InitDirector ==
    /\ kind \in Kinds
    /\ rr = RRInit
    /\ wrr = WRRInit
    /\ \E n \in (IF kind = "ConsistentHash" THEN Replicas ELSE {0}) :
          /\ ch = CHInit(n)
          /\ hashFn \in [VNodes(n) -> HashVals]
    /\ zk = ZkIdle
    /\ sess = SessIdle
    /\ \E dir \in Directors : req = Inbound(dir)
    /\ confList = <<>>
    /\ last = Call("New", <<>>, "", "nil", <<>>)
    /\ log = <<>>
    /\ added = <<>>
    /\ fresh = TRUE
    /\ mux = NoLock
    /\ ConcIdle

\* the director, after loadBalancer.Get(req.RemoteAddr) has returned
Route ==
    /\ kind \in Kinds
    /\ req.phase \in {"none", "done"}
    /\ last.op = "Get"
    /\ req' = Director(req, last.ret, last.err)
    /\ UNCHANGED <<kind, zk, sess, rr, wrr, ch, hashFn, confList, last, log, added,
                   fresh, concVars>>

NextDirector == AddRR \/ GetRR \/ AddWRR \/ GetWRR \/ AddCH \/ GetCH \/ Route

SpecDirector == InitDirector /\ [][NextDirector]_vars

(***************************************************************************)
(* SpecRing: one ConsistentHashBanlance to which one caller adds addresses *)
(* out of three and on which it looks keys up.                             *)
(***************************************************************************)
RingAddrs == {"a", "b", "c"}

RingVNodes(replicas) == {VNode(i, a) : i \in 0..(replicas - 1), a \in RingAddrs}

InitRing ==
    /\ kind = "ConsistentHash"
    /\ rr = RRInit
    /\ wrr = WRRInit
    /\ \E n \in Replicas :
          /\ ch = CHInit(n)
          /\ hashFn \in [RingVNodes(n) -> HashVals]
    /\ zk = ZkIdle
    /\ sess = SessIdle
    /\ req = ReqIdle
    /\ confList = <<>>
    /\ last = Call("New", <<>>, "", "nil", <<>>)
    /\ log = <<>>
    /\ added = <<>>
    /\ fresh = TRUE
    /\ mux = NoLock
    /\ ConcIdle

AddRing ==
    /\ kind = "ConsistentHash" /\ CallerFree
    /\ Len(added) < MaxPool
    /\ \E a \in RingAddrs :
        /\ ch' = CHAdd(ch, <<a>>)
        /\ last' = Call("Add", <<a>>, "", CHAddErr(<<a>>), ch)
        /\ added' = Append(added, a)
    /\ UNCHANGED <<kind, zk, sess, req, rr, wrr, hashFn, confList, log, fresh, concVars>>

NextRing == AddRing \/ GetCH

SpecRing == InitRing /\ [][NextRing]_vars

(***************************************************************************)
(* SpecRedundant: a round-robin or weighted pool of more than one address, *)
(* built by Update() from a snapshot that does not change any more.  The   *)
(* caller keeps calling Get(); Update() is called again at any moment.     *)
(***************************************************************************)
\* the snapshots with more than one entry (for the weighted strategy: with a
\* positive weight in every entry)
RedundantLists(k) ==
    IF k = "WeightRoundRobin"
    THEN { << <<"b", "2">>, <<"c", "1">> >>, TestConf }
    ELSE { list \in ConfChoices : Len(list) > 1 }

InitRedundant ==
    /\ kind \in {"RoundRobinNoMux", "RoundRobin", "WeightRoundRobin"}
    /\ \E conf \in ConfTypes, list \in RedundantLists(kind) :
          /\ confList = list
          /\ rr = IF kind = "RoundRobin"
                  THEN RRUpdate(RRSetConf(RRInit, conf), list)
                  ELSE IF kind = "RoundRobinNoMux"
                  THEN RRUpdateNoMux(RRSetConf(RRInit, conf), list)
                  ELSE RRInit
          /\ wrr = IF kind = "WeightRoundRobin"
                   THEN WRRUpdate(WRRSetConf(WRRInit, conf), list)
                   ELSE WRRInit
          /\ last = Call("Update", list, "", "nil",
                         IF IsRR THEN RRSetConf(RRInit, conf)
                         ELSE WRRSetConf(WRRInit, conf))
    /\ \E n \in {0} :
          /\ ch = CHInit(n)
          /\ hashFn \in [VNodes(n) -> HashVals]
    /\ zk = ZkIdle
    /\ sess = SessIdle
    /\ req = ReqIdle
    /\ log = <<>>
    /\ added = IF IsRR THEN rr.rss ELSE [i \in 1..Len(wrr.rss) |-> wrr.rss[i].addr]
    /\ fresh = TRUE
    /\ mux = NoLock
    /\ ConcIdle

\* Get(key), any number of times: the selections are not recorded in log
ServeRR ==
    /\ IsRR /\ CallerFree
    /\ rr' = RRNext(rr)
    /\ last' = Call("Get", <<>>, RRNextRet(rr'), RRGetErr(rr), rr)
    /\ UNCHANGED <<kind, zk, sess, req, wrr, ch, hashFn, confList, log, added, fresh, concVars>>

ServeWRR ==
    /\ kind = "WeightRoundRobin" /\ CallerFree
    /\ wrr' = WRRNext(wrr)
    /\ last' = Call("Get", <<>>, WRRNextRet(wrr), WRRGetErr(wrr), wrr)
    /\ UNCHANGED <<kind, zk, sess, req, rr, ch, hashFn, confList, log, added, fresh, concVars>>

NextRedundant == ServeRR \/ ServeWRR \/ UpdateRR \/ UpdateWRR

\* Get() is called infinitely often
SpecRedundant ==
    /\ InitRedundant /\ [][NextRedundant]_vars
    /\ WF_vars(ServeRR) /\ WF_vars(ServeWRR)

(***************************************************************************)
(* Properties                                                              *)
(***************************************************************************)
\* number of selections of pool position k (0-based) among log[from..to]
CountIdx(from, to, k) == Cardinality({j \in from..to : log[j].idx = k})

Distinct(s) == \A i, j \in 1..Len(s) : i # j => s[i] # s[j]

Sorted(s) == \A i \in 1..(Len(s) - 1) : s[i] <= s[i + 1]

\* C1: on a round-robin pool of N >= 1 addresses that does not change, any N
\* consecutive Next() calls return every pool position exactly once, in the
\* cyclic order of the pool, and the call after them returns what the first
\* of them returned.
C1_RoundRobinCycle ==
    IsRR =>
        LET N == Len(rr.rss)
        IN \A i \in 1..Len(log) :
            /\ log[i].addr = rr.rss[log[i].idx + 1]
            /\ i + 1 <= Len(log) => log[i + 1].idx = (log[i].idx + 1) % N
            /\ i + N - 1 <= Len(log) => {log[j].idx : j \in i..(i + N - 1)} = 0..(N - 1)
            /\ i + N <= Len(log) => log[i + N] = log[i]

\* a pool of three different addresses on which more than a full cycle ran
C1_Witness ==
    /\ IsRR
    /\ Len(rr.rss) = 3 /\ Distinct(rr.rss)
    /\ Len(log) >= 5

WRRSum(r) ==
    LET RECURSIVE Sum(_)
        Sum(i) == IF i = 0 THEN 0 ELSE r.rss[i].weight + Sum(i - 1)
    IN Sum(Len(r.rss))

WRRPositive(r) == \A i \in 1..Len(r.rss) : r.rss[i].weight > 0

\* C2: on a weighted pool with positive weights of sum S that does not change,
\* every window of S consecutive Next() calls, wherever it starts, returns each
\* node exactly weight-many times.
C2_WeightedWindow ==
    (kind = "WeightRoundRobin" /\ Len(wrr.rss) > 0 /\ WRRPositive(wrr)) =>
        LET S == WRRSum(wrr)
        IN \A i \in 1..Len(log) :
            i + S - 1 <= Len(log) =>
                \A k \in 1..Len(wrr.rss) :
                    CountIdx(i, i + S - 1, k - 1) = wrr.rss[k].weight

\* a window that does not start at the first call, on unequal weights
C2_Witness ==
    /\ kind = "WeightRoundRobin"
    /\ Len(wrr.rss) >= 2 /\ WRRPositive(wrr)
    /\ wrr.rss[1].weight # wrr.rss[2].weight
    /\ Len(log) >= WRRSum(wrr) + 2

\* the pool of the test: a, b, c, d with weights 4, 3, 2, 1 in this order
IsTestPool ==
    /\ kind = "WeightRoundRobin"
    /\ Len(wrr.rss) = Len(TestConf)
    /\ \A k \in 1..Len(TestConf) :
        /\ wrr.rss[k].addr = TestConf[k][1]
        /\ wrr.rss[k].weight = ParseInt(TestConf[k][2])

\* the pool was built without a Next() in between
FreshPool == fresh

FirstTen == IF Len(log) < 10 THEN Len(log) ELSE 10

\* C3: on a fresh pool a, b, c, d with weights 4, 3, 2, 1 the first Next()
\* returns a, no two consecutive calls among the first ten return the same
\* address, and the first ten calls return a 4 times, b 3 times, c twice, d once.
C3_TestSequence ==
    (IsTestPool /\ FreshPool) =>
        /\ Len(log) >= 1 => log[1].addr = "a"
        /\ \A j \in 1..(FirstTen - 1) : log[j].addr # log[j + 1].addr
        /\ Len(log) >= 10 =>
            \A k \in 1..Len(wrr.rss) : CountIdx(1, 10, k - 1) = wrr.rss[k].weight

C3_Witness ==
    /\ IsTestPool /\ FreshPool
    /\ Len(log) >= 10

\* the pool the last call found
PoolWasEmpty ==
    CASE IsRR -> Len(last.pre.rss) = 0
      [] kind = "WeightRoundRobin" -> Len(last.pre.rss) = 0
      [] OTHER -> Len(last.pre.keys) = 0

\* C4: Get(key) on a pool without any address returns a non-nil error, for
\* every strategy.
C4_EmptyPoolError ==
    (last.op = "Get" /\ PoolWasEmpty) => last.err # "nil"

\* the ring position that owns hash h: the smallest position >= h, or the
\* smallest position of all when h is greater than every position
Owner(keys, h) ==
    IF \E k \in Range(keys) : k >= h
    THEN Min({k \in Range(keys) : k >= h})
    ELSE Min(Range(keys))

\* C9: Get(key) on a non-empty ring returns the address mapped to the smallest
\* ring position >= hash(key), and the address of the smallest ring position
\* when hash(key) is greater than every position.
C9_RingLookup ==
    (kind = "ConsistentHash" /\ last.op = "Get" /\ ~IsEmpty(ch)) =>
        /\ last.err = "nil"
        /\ last.ret = ch.hashMap[Owner(ch.keys, Hash(last.arg))]

\* a lookup that wraps around a ring of two addresses
C9_Witness ==
    /\ kind = "ConsistentHash" /\ last.op = "Get"
    /\ Cardinality(Range(ch.keys)) >= 2
    /\ \A k \in Range(ch.keys) : k < Hash(last.arg)
    /\ last.ret = ch.hashMap[ch.keys[1]]
    /\ last.ret # ch.hashMap[ch.keys[Len(ch.keys)]]

\* C10 as stated: after any sequence of Add calls the ring has no duplicate
\* position and len(keys) = replicas * number of distinct addresses added.
C10_NoDuplicates ==
    kind = "ConsistentHash" =>
        /\ Distinct(ch.keys)
        /\ Len(ch.keys) = ch.replicas * Cardinality(Range(added))

\* no two virtual nodes of the addresses added hash to the same position
NoCollision ==
    \A v, w \in VNodes(ch.replicas) :
        (v[2] \in Range(added) /\ w[2] \in Range(added) /\ v # w) => hashFn[v] # hashFn[w]

\* C10 (amended): len(keys) = replicas * number of Add calls made with an
\* address, and keys is ascending; the ring is free of duplicates, with
\* len(keys) = replicas * number of distinct addresses, when no address was
\* added twice and no two virtual-node hashes collide.
C10_RingSize ==
    kind = "ConsistentHash" =>
        /\ Len(ch.keys) = ch.replicas * Len(added)
        /\ Sorted(ch.keys)
        /\ (Distinct(added) /\ NoCollision) =>
            /\ Distinct(ch.keys)
            /\ Len(ch.keys) = ch.replicas * Cardinality(Range(added))

\* two addresses, two replicas each, four different positions
C10_Witness ==
    /\ kind = "ConsistentHash"
    /\ ch.replicas = 2 /\ Len(added) = 2 /\ Distinct(added) /\ NoCollision
    /\ Len(ch.keys) = 4


(***************************************************************************)
(* Properties of SpecConc                                                  *)
(***************************************************************************)
\* the steps of Next() between r.mux.Lock() and the deferred Unlock
NextSection ==
    {"next_len", "next_load", "next_store", "next_read", "next_loop",
     "next_settle", "next_unlock"}

\* the steps of Add, SetConf and Update between Lock and the deferred Unlock
WriteSection ==
    {"add_append", "add_unlock", "setconf_store", "setconf_unlock",
     "upd_conf", "upd_rss", "upd_idx", "upd_clear", "upd_add", "upd_unlock"}

AllIdle == \A p \in Procs : pc[p] = "idle"

\* C5: on a shared mutex-guarded RoundRobinBalance, no two calls are between
\* Lock and Unlock at the same time; on a pool of N >= 1 addresses that has
\* not changed since the cursor was 0, the k-th selection made by the
\* goroutines together has index k mod N (none lost, none made twice), and
\* once the T calls have returned curIndex is T mod N.
C5_SharedCursor ==
    kind = "RoundRobin" =>
        /\ \A p, q \in Procs :
              (p # q /\ pc[p] \in NextSection)
                  => pc[q] \notin (NextSection \cup WriteSection)
        /\ (fresh /\ Len(rr.rss) >= 1) =>
              /\ \A k \in 1..Len(log) :
                    /\ log[k].idx = k % Len(rr.rss)
                    /\ log[k].addr = rr.rss[log[k].idx + 1]
              /\ AllIdle => rr.curIndex = Len(log) % Len(rr.rss)

\* three selections on a pool of two have been made and the cursor has wrapped,
\* while a second goroutine waits in Get for the lock the first one holds
C5_Witness ==
    /\ kind = "RoundRobin" /\ fresh
    /\ Len(rr.rss) = 2 /\ Len(log) = 3 /\ rr.curIndex = 1
    /\ \E p, q \in Procs :
          /\ pc[p] = "next_unlock" /\ loc[p].ret = rr.rss[2]
          /\ pc[q] = "next_lock"

AccessSteps ==
    {"next_len", "next_load", "next_store", "next_read", "next_loop",
     "next_settle", "add_append", "add_loop", "add_sort", "setconf_store",
     "upd_conf", "upd_rss", "upd_idx", "upd_clear", "upd_add",
     "get_empty", "get_search", "get_read"}

ReadSteps == {"get_empty", "get_search", "get_read", "upd_conf"}

HoldsLock(p) ==
    \/ mux.writer = p
    \/ pc[p] \in ReadSteps /\ p \in mux.readers

\* C7: in every strategy a goroutine about to read or write the shared state
\* holds the strategy's lock (the write lock, or the read lock for a read).
C7_LockDiscipline ==
    \A p \in Procs : pc[p] \in AccessSteps => HoldsLock(p)

\* C8: an Update of a ConsistentHashBanlance never waits for the lock that
\* the Update itself holds.
C8_UpdateReturns ==
    \A p \in Procs :
        ~(loc[p].op = "Update" /\ pc[p] = "add_lock" /\ mux.writer = p)


\* C11: whenever a Get of a ConsistentHashBanlance is at its binary search or
\* at the read of keys[idx] that follows it, keys is in ascending order, under
\* every interleaving with Add and Update.
C11_SortedAtSearch ==
    kind = "ConsistentHash" =>
        \A p \in Procs :
            pc[p] \in {"get_search", "get_read"} => Sorted(ch.keys)

\* a Get is at its binary search on a ring of several different positions
\* while an Add of another goroutine waits for the lock
C11_Witness ==
    /\ kind = "ConsistentHash"
    /\ \E p, q \in Procs :
          /\ pc[p] = "get_search"
          /\ pc[q] = "add_lock" /\ loc[q].op = "Add"
    /\ Len(ch.keys) >= 2
    /\ ch.keys[1] < ch.keys[Len(ch.keys)]


\* C12: after Update() of a RoundRobinBalance with a source attached, the pool
\* is the first field of every entry of the GetConf() snapshot, in snapshot
\* order, and the cursor is 0.
C12_UpdateRebuilds ==
    (IsRR /\ last.op = "Update" /\ last.pre.conf \in ConfTypes) =>
        /\ rr.rss = RRNewRss(last.arg)
        /\ rr.curIndex = 0


\* C13: after Update() of a WeightRoundRobinBalance with a source attached,
\* the pool has one node for every entry of the GetConf() snapshot, in
\* snapshot order, with the entry's address, its parsed weight,
\* effectiveWeight = weight and currentWeight = 0.
C13_UpdateRebuilds ==
    (kind = "WeightRoundRobin" /\ last.op = "Update" /\ last.pre.conf \in ConfTypes) =>
        /\ Len(wrr.rss) = Len(last.arg)
        /\ \A k \in 1..Len(last.arg) :
              LET parts == Split(last.arg[k])
              IN /\ Len(parts) >= 2
                 /\ ParseIntOk(parts[2])
                 /\ wrr.rss[k] = NewWeightNode(parts[1], ParseInt(parts[2]))


\* C14: SetConf replaces the attached source and nothing else: pool, cursor,
\* node weights, ring keys and hash map are as before the call, and a Get
\* after it returns what it would have returned without it and leaves the
\* same pool and cursor behind.
C14_SetConfFrame ==
    last.op = "SetConf" =>
        /\ IsRR =>
              /\ rr = [last.pre EXCEPT !.conf = last.arg[1]]
              /\ RRNextRet(RRNext(rr)) = RRNextRet(RRNext(last.pre))
              /\ RRNext(rr) = [RRNext(last.pre) EXCEPT !.conf = last.arg[1]]
        /\ kind = "WeightRoundRobin" =>
              /\ wrr = [last.pre EXCEPT !.conf = last.arg[1]]
              /\ WRRNextRet(wrr) = WRRNextRet(last.pre)
              /\ WRRNext(wrr) = [WRRNext(last.pre) EXCEPT !.conf = last.arg[1]]
        /\ kind = "ConsistentHash" =>
              /\ ch = [last.pre EXCEPT !.conf = last.arg[1]]
              /\ \A key \in LookupKeys :
                    /\ CHGetRet(ch, key) = CHGetRet(last.pre, key)
                    /\ CHGetErr(ch, key) = CHGetErr(last.pre, key)

\* a source was attached to a round-robin pool of two addresses whose cursor
\* had advanced, replacing the source attached before
C14_Witness ==
    /\ IsRR /\ last.op = "SetConf"
    /\ last.pre.conf \in ConfTypes /\ rr.conf \in ConfTypes /\ rr.conf # last.pre.conf
    /\ Len(rr.rss) = 2 /\ rr.curIndex = 1


\* C15: when Update() of a RoundRobinBalance or WeightRoundRobinBalance has
\* returned, a second Update() on the same GetConf() snapshot leaves the
\* object (pool contents and order, cursor, node weights) exactly as it is.
C15_UpdateIdempotent ==
    last.op = "Update" =>
        /\ kind = "RoundRobin" => RRUpdate(rr, last.arg) = rr
        /\ kind = "RoundRobinNoMux" => RRUpdateNoMux(rr, last.arg) = rr
        /\ kind = "WeightRoundRobin" => WRRUpdate(wrr, last.arg) = wrr

\* an Update rebuilt a weighted pool of two nodes on which selections had
\* already moved the current weights
C15_Witness ==
    /\ kind = "WeightRoundRobin" /\ last.op = "Update"
    /\ wrr.conf \in ConfTypes
    /\ Len(wrr.rss) = 2
    /\ \E k \in 1..Len(last.pre.rss) : last.pre.rss[k].currentWeight # 0


\* the parameter lists Add must reject: no address; for a
\* WeightRoundRobinBalance also a count other than 2 or a weight that is not
\* an integer
Malformed(params) ==
    \/ Len(params) = 0
    \/ kind = "WeightRoundRobin" /\ (Len(params) # 2 \/ ~ParseIntOk(params[2]))

\* C16: in every strategy an Add with a malformed parameter list returns a
\* non-nil error and leaves the object as it was.
C16_AddRejectsMalformed ==
    (last.op = "Add" /\ Malformed(last.arg)) =>
        /\ last.err # "nil"
        /\ IsRR => rr = last.pre
        /\ kind = "WeightRoundRobin" => wrr = last.pre
        /\ kind = "ConsistentHash" => ch = last.pre


(***************************************************************************)
(* Properties of SpecWatch                                                 *)
(***************************************************************************)
\* an error ended the loop: one error was sent, the loop is at its deferred
\* close or has returned, and once it has returned both channels are closed
ErrorIsTerminal ==
    kind \in WatchKinds =>
        /\ zk.errSent <= 1
        /\ zk.errSeen => (zk.errSent = 1 /\ zk.wpc \in {"close", "done"})
        /\ zk.errSent = 1 => zk.errSeen
        /\ zk.wpc = "done" => (zk.errSeen /\ zk.snapClosed /\ zk.errClosed)
        /\ (zk.snapClosed \/ zk.errClosed) => zk.wpc = "done"

\* on closed channels nothing is sent and the loop stays ended
NoSendAfterClose ==
    (kind \in WatchKinds /\ zk.snapClosed /\ zk'.snapClosed) =>
        /\ zk'.wpc = "done"
        /\ zk'.errSent = zk.errSent
        /\ Len(zk'.snaps) <= Len(zk.snaps)
        /\ Len(zk'.errs) <= Len(zk.errs)

\* C17: when the watch call fails or an event carries an error, the loop sends
\* exactly one error on the error channel, closes both channels, sends
\* nothing afterwards and does not issue the watch again.
C17_ErrorTerminal == []ErrorIsTerminal /\ [][NoSendAfterClose]_vars

\* a loop that had delivered a snapshot was ended by an event carrying an
\* error; the error is in the error channel and both channels are closed
C17_Witness ==
    /\ kind \in WatchKinds
    /\ zk.wpc = "done" /\ zk.errs = <<"event">>
    /\ zk.snapClosed /\ zk.errClosed
    /\ Len(zk.snaps) >= 1

\* C18: whenever no watch loop is running for a subscription (it never
\* started or it has ended), both channels of the subscription are closed.
C18_ChannelsClosed ==
    (kind \in WatchKinds /\ zk.wpc \in {"nowatch", "done"}) =>
        (zk.snapClosed /\ zk.errClosed)

\* a send on a full snapshot channel drops the snapshot
DropWhenFull ==
    (kind \in WatchKinds /\ zk.wpc = "send" /\ zk'.wpc = "wait"
        /\ Len(zk.snaps) = zk.snapCap) => zk'.snaps = zk.snaps

\* C19: the snapshot channel never holds more than 10 snapshots, a snapshot
\* sent to a full channel is dropped, and a loop about to send a snapshot
\* reaches its wait for the next event, whether or not the consumer receives.
C19_FullBufferNoStall ==
    /\ [](kind \in WatchKinds => Len(zk.snaps) <= SnapCap)
    /\ [][DropWhenFull]_vars
    /\ (kind \in WatchKinds /\ zk.wpc = "send") ~> (zk.wpc = "wait")

\* the loop waits for the next event after dropping a snapshot that the full
\* channel does not hold
C19_Witness ==
    /\ kind \in WatchKinds
    /\ zk.wpc = "wait"
    /\ Len(zk.snaps) = 10
    /\ zk.snapshot # zk.snaps[10]

\* C20: a loop waiting for the next change event leaves the wait, also when
\* no event ever arrives.
C20_WaitBounded ==
    (kind \in WatchKinds /\ zk.wpc = "wait") ~> (zk.wpc # "wait")


\* C21: while a watch loop is at its watch call, at its send or waiting for
\* an event, the handle it works on is open and is the one the client holds:
\* Close() never closes or releases it under the loop.
C21_HandleOpenWhileWatching ==
    (kind \in WatchKinds /\ zk.wpc \in {"watch", "send", "wait"}) =>
        (zk.conn /\ zk.lconn = "open")


(***************************************************************************)
(* Properties of SpecSession                                               *)
(***************************************************************************)
\* goroutine p completes a call of op in this step
Completes(p, op) == pc[p] # "done" /\ pc'[p] = "done" /\ loc'[p].op = op

CloseDisconnects ==
    \A p \in Procs :
        Completes(p, "Close") =>
            /\ sess'.conn = 0 /\ ~sess'.connected
            /\ sess.conn = 0 => sess' = sess

\* C22: when Close() returns the client holds no handle and, in zk.go,
\* connected is false, whatever the state it was called in; on a client
\* without a handle Close() changes nothing.
C22_CloseDisconnects == [][CloseDisconnects]_vars

\* a Close() has returned on a client of zk.go whose session had expired:
\* the handle is closed and the client holds none
C22_Witness ==
    /\ kind = "ZkManager"
    /\ \E p \in Procs : pc[p] = "done" /\ loc[p].op = "Close"
    /\ sess.conn = 0 /\ ~sess.connected
    /\ sess.hs[1] = "closed" /\ sess.notif = 1 /\ sess.hs[2] = "unused"

\* the handles zk.Connect returned and nothing has closed
OpenHandles(s) == {h \in Handles : s.hs[h] \in {"session", "expired"}}

\* C23: every open handle is the one the client holds (or lies in the pool
\* it was returned to): GetConnect on a connected client opens no second
\* handle and loses none.
C23_OneOpenHandle ==
    kind \in WatchKinds =>
        \A h \in OpenHandles(sess) : h = sess.conn \/ h \in sess.pool

\* C24: every session-expired notification has started one reconnect
\* goroutine, which calls GetConnect once: the attempts made and the
\* goroutines still asleep are as many as the notifications.
C24_OneReconnect ==
    kind \in WatchKinds => sess.attempts + sess.pending = sess.notif

RegistIdempotent ==
    \A p \in Procs :
        Completes(p, "RegistServerPath") =>
            /\ loc'[p].err = "nil" => (sess'.group /\ sess'.child # 0)
            /\ (sess.group /\ sess.child # 0 /\ HasSession(sess, sess.conn)) =>
                  (loc'[p].err = "nil" /\ sess' = sess)

\* C25: a RegistServerPath that returns nil leaves the group node and the
\* ephemeral child in the registry, and a call made when both are there and
\* the session is alive returns nil and changes nothing.
C25_RegistIdempotent == [][RegistIdempotent]_vars

\* a RegistServerPath returned nil on a session that already owned the
\* ephemeral child
C25_Witness ==
    /\ kind \in WatchKinds
    /\ \E p \in Procs :
          /\ pc[p] = "done" /\ loc[p].op = "RegistServerPath"
          /\ loc[p].path = "present" /\ loc[p].err = "nil"
    /\ sess.group /\ sess.child = sess.conn /\ sess.conn # 0

\* C26: a SetPathData never waits for z.mutex while it holds z.mutex itself,
\* so it returns.
C26_SetPathDataReturns ==
    kind \in WatchKinds =>
        \A p \in Procs :
            ~(loc[p].op = "SetPathData" /\ pc[p] = "ensure" /\ mux.writer = p)

\* C27: a SetPathData that replaced the payload of an existing node and
\* returned nil was given the version the node had then, not an older one.
C27_CompareAndSwap ==
    kind \in WatchKinds =>
        \A p \in Procs :
            (pc[p] = "done" /\ loc[p].op = "SetPathData"
                /\ loc[p].path = "update" /\ loc[p].err = "nil") =>
                    ~(loc[p].ver < loc[p].dver)


(***************************************************************************)
(* Properties of SpecDirector                                              *)
(***************************************************************************)
\* C28: whatever Get() returned, the request leaves the director with a
\* scheme and a host: those of the fixed default backend when Get() returned
\* an error or the empty address, those of the returned address otherwise.
C28_DirectorRoutes ==
    (req.phase = "done") =>
        /\ req.Scheme # "" /\ req.Host # ""
        /\ req.target = IF req.err # "nil" \/ req.ret = "" THEN Fallback ELSE req.ret


(***************************************************************************)
(* The first selection on a pool that was just built                       *)
(***************************************************************************)

\* the pool was just built: by Add calls on an instance that has made no
\* selection, or by an Update() that had a source attached
JustBuilt ==
    /\ log = <<>>
    /\ Len(rr.rss) >= 1
    /\ \/ last.op = "Update" /\ last.pre.conf \in ConfTypes
       \/ last.op = "Add" /\ fresh

\* the step is a Next() on the just-built pool
FirstNext ==
    /\ IsRR /\ JustBuilt
    /\ last' # last /\ last'.op = "Get"

\* C29: on a RoundRobinBalance whose pool was just built (by Add calls on a
\* fresh instance, or by Update) the first Next() returns index 1 when the
\* pool has more than one address and index 0 when it has one; over
\* [a, b, c] built that way successive Next() calls return b, c, a, b.
C29_FirstNextIndexOne ==
    [][/\ FirstNext =>
            /\ rr'.curIndex = (IF Len(rr.rss) > 1 THEN 1 ELSE 0)
            /\ last'.ret = rr.rss[rr'.curIndex + 1]
       /\ (IsRR /\ fresh /\ rr.rss = <<"a", "b", "c">> /\ Len(log) >= 4) =>
            [i \in 1..4 |-> log[i].addr] = <<"b", "c", "a", "b">>]_vars



(***************************************************************************)
(* The effective weight of a WeightRoundRobinBalance node                  *)
(***************************************************************************)

\* C30: in every reachable state of a WeightRoundRobinBalance every node has
\* effectiveWeight = weight (it starts so on Add and on Update and nothing
\* lowers it), so the recovery step of Next(), which increments
\* effectiveWeight while it is below weight, never fires.
C30_EffectiveWeightFixed ==
    kind = "WeightRoundRobin" =>
        \A k \in 1..Len(wrr.rss) :
            wrr.rss[k].effectiveWeight = wrr.rss[k].weight

\* a pool of nodes with different weights, rebuilt by Update(), on which
\* Next() has run three times and left an accumulated weight behind
C30_Witness ==
    /\ kind = "WeightRoundRobin"
    /\ wrr.conf \in ConfTypes
    /\ Len(wrr.rss) >= 2
    /\ wrr.rss[1].weight # wrr.rss[2].weight
    /\ Len(log) >= 3
    /\ last.op = "Get"
    /\ \E k \in 1..Len(wrr.rss) : wrr.rss[k].currentWeight # 0



(***************************************************************************)
(* The accumulators of a WeightRoundRobinBalance                           *)
(***************************************************************************)
\* the sum of currentWeight over the pool
WRRCurrentSum(r) ==
    LET RECURSIVE Sum(_)
        Sum(i) == IF i = 0 THEN 0 ELSE r.rss[i].currentWeight + Sum(i - 1)
    IN Sum(Len(r.rss))

\* every accumulator lies strictly between -S and +S, S the sum of the weights
WRRBounded(r) ==
    \A k \in 1..Len(r.rss) :
        /\ r.rss[k].currentWeight > 0 - WRRSum(r)
        /\ r.rss[k].currentWeight < WRRSum(r)

WRRNonNegative(r) == \A i \in 1..Len(r.rss) : r.rss[i].weight >= 0

\* C31 (as stated): in the initial state, after every Update() and after
\* every completed Next() on a non-empty pool, the accumulators sum to 0 and
\* each lies strictly between -S and +S.
C31_AccumulatorsBounded ==
    (kind = "WeightRoundRobin" /\ last.op \in {"New", "Get", "Update"}) =>
        /\ WRRCurrentSum(wrr) = 0
        /\ WRRBounded(wrr)

\* C31 (amended): the accumulators sum to 0 in every state, whatever the
\* weights; each lies strictly between -S and +S when no weight is negative
\* and S > 0.
C31_SumZero ==
    kind = "WeightRoundRobin" =>
        /\ WRRCurrentSum(wrr) = 0
        /\ (WRRNonNegative(wrr) /\ WRRSum(wrr) > 0) => WRRBounded(wrr)

\* Next() has run more than a full period on a pool of unequal weights, one
\* of them 0, and has left accumulators different from 0
C31_Witness ==
    /\ kind = "WeightRoundRobin"
    /\ last.op = "Get"
    /\ Len(wrr.rss) = 3
    /\ WRRNonNegative(wrr) /\ WRRSum(wrr) = 2
    /\ Len(log) >= 5
    /\ \E k \in 1..Len(wrr.rss) : wrr.rss[k].currentWeight # 0



(***************************************************************************)
(* Nodes of weight 0                                                       *)
(***************************************************************************)
WRRHasPositive(r) == \E i \in 1..Len(r.rss) : r.rss[i].weight > 0

\* C32 (as stated): in a WeightRoundRobinBalance pool with at least one node
\* of positive weight, Next() never returns a node of weight 0, whatever its
\* position in the pool and however many calls are made.
C32_ZeroWeightNeverReturned ==
    (kind = "WeightRoundRobin" /\ WRRHasPositive(wrr)) =>
        \A i \in 1..Len(log) : wrr.rss[log[i].idx + 1].weight # 0

\* C32 (amended): the same, in a pool that holds no node of negative weight.
C32_ZeroWeightSkipped ==
    (kind = "WeightRoundRobin" /\ WRRHasPositive(wrr) /\ WRRNonNegative(wrr)) =>
        \A i \in 1..Len(log) : wrr.rss[log[i].idx + 1].weight # 0

\* four selections on a pool whose first node has weight 0 and which holds a
\* node of positive weight and none of negative weight
C32_Witness ==
    /\ kind = "WeightRoundRobin"
    /\ WRRHasPositive(wrr) /\ WRRNonNegative(wrr)
    /\ wrr.rss[1].weight = 0
    /\ Len(log) >= 4



(***************************************************************************)
(* Properties of SpecRing                                                  *)
(***************************************************************************)
\* the last call added an address that was not on the ring, to a ring that
\* was not empty
AddedNew ==
    /\ kind = "ConsistentHash"
    /\ last.op = "Add" /\ Len(last.arg) > 0
    /\ ~IsEmpty(last.pre)
    /\ \A i \in 1..(Len(added) - 1) : added[i] # last.arg[1]

\* C33: adding one new address to a non-empty ring changes the owner of a key
\* only in favour of the new address: Get(key) after the Add returns what it
\* returned before the Add, or the new address.
C33_AddMovesKeysToNew ==
    AddedNew =>
        \A key \in LookupKeys :
            CHGetRet(ch, key) \in {CHGetRet(last.pre, key), last.arg[1]}

\* a third address joins a ring of two addresses that own keys, takes some
\* keys and leaves others with each of the two
C33_Witness ==
    /\ AddedNew
    /\ Len(added) = 3 /\ Distinct(added)
    /\ {CHGetRet(last.pre, key) : key \in LookupKeys} = {added[1], added[2]}
    /\ {CHGetRet(ch, key) : key \in LookupKeys} = Range(added)



(***************************************************************************)
(* Get of a ConsistentHashBanlance against a concurrent Update             *)
(***************************************************************************)
\* C34: ConsistentHashBanlance.Get never indexes an empty ring: under every
\* interleaving with an Update that clears the ring, a Get whose emptiness
\* check has passed returns an address or an error and never fails with an
\* index out of range.
C34_GetNeverOutOfRange ==
    kind = "ConsistentHash" =>
        \A p \in Procs : loc[p].op = "Get" => loc[p].err # "panic"



(***************************************************************************)
(* Properties of SpecRedundant                                             *)
(***************************************************************************)
\* the addresses of the pool
PoolAddrs ==
    IF IsRR THEN Range(rr.rss) ELSE {wrr.rss[i].addr : i \in 1..Len(wrr.rss)}

\* C35: redundant Update() calls starve no backend: with Update() called at
\* any moment on an unchanged snapshot and Get() called infinitely often,
\* every address of a pool of N > 1 addresses is returned infinitely often.
C35_NoStarvation ==
    \A a \in {"", "a", "b", "c", "d"} :
        []<>(a \notin PoolAddrs \/ (last.op = "Get" /\ last.ret = a))



(***************************************************************************)
(* Properties of SpecConverge                                              *)
(***************************************************************************)
\* C36: the watch converges to the final membership: when the children of
\* the watched path stop changing (and the loop keeps running) and the
\* consumer keeps receiving, the consumer ends up with a snapshot equal to
\* the final children list, also when the buffer was full at the moment the
\* loop observed the last change.
C36_WatchConverges ==
    \A d \in ZkData :
        <>[](zk.data = d /\ LoopRunning(zk)) =>
            <>[](last.op = "Recv" /\ last.ret = d)



(***************************************************************************)
(* Close() against the operations and the reconnect of SpecSession         *)
(***************************************************************************)
\* C38: no registry operation uses an absent connection handle: under every
\* interleaving with Close() an operation runs on a non-nil handle or
\* returns an error; no Close() that sets the handle to nil falls between
\* the check that a connection exists and the use of the handle.
C38_NoNilHandle ==
    kind \in WatchKinds => \A p \in Procs : pc[p] # "panic"

\* Close() has returned and nobody has connected since: the pool variant
\* sets z.conn to nil nowhere else
ClosedClient(s) == s.conn = 0 /\ \E h \in Handles : s.hs[h] # "unused"

\* a step of a caller's own GetConnect, or of the ensureConnection of one of
\* its operations
CallerConnects == \E p \in Procs : pc[p] = "connect" /\ pc'[p] # "connect"

\* C39: Close() is final with respect to background activity: once Close()
\* has returned, a reconnect scheduled by an earlier session-expired
\* notification does not open a connection on the closed client; only the
\* caller's GetConnect or another client operation does.
C39_CloseIsFinal ==
    [][(kind = "ZkManagerPool" /\ ClosedClient(sess) /\ sess'.conn # 0)
           => CallerConnects]_vars



(***************************************************************************)
(* Properties of SpecRegist                                                *)
(***************************************************************************)
\* C37: when clients with separate sessions call RegistServerPath for the
\* same group path with different host names while the group node does not
\* exist yet, every call returns nil and afterwards the group node and the
\* ephemeral child of every client exist; no registrant fails because
\* another one created the group node first.
C37_BothRegister ==
    (\A p \in Procs : pc[p] = "done" /\ sess.hs[p] = "session") =>
        /\ \A p \in Procs : loc[p].err = "nil"
        /\ sess.group
        /\ sess.children = Procs



(***************************************************************************)
(* The handles of the managers that share zkPool (SpecPool)                *)
(***************************************************************************)
\* C40: the handle a ZkManager holds after GetConnect() is a session with
\* one of that manager's own configured hosts; a handle that Close() of a
\* manager configured for other hosts returned to the pool is never adopted.
C40_OwnHostsOnly ==
    \A m \in Procs :
        (sess.conn[m] # 0 /\ sess.hs[sess.conn[m]] = "session") =>
            sess.host[sess.conn[m]] \in sess.hosts[m]

====
